---- MODULE Spec2Model ----
(***************************************************************************)
(* Task-state synchronization engine of the unified chat page:             *)
(*   - usePersistedState (hooks.ts): a React state value backed by         *)
(*     localStorage, with a load effect, a persist effect and clearValue;  *)
(*   - the tool-call renders of UnifiedChatPage, each of which schedules   *)
(*     (setTimeout 0) a functional update of the UnifiedState.             *)
(*                                                                         *)
(* JavaScript values are modelled structurally.  A primitive is a record   *)
(* with a jstype field, an array is a record holding a sequence, and an    *)
(* object is a TLA+ record (a function from its own keys to values), so    *)
(* that a key that is absent and a key that holds undefined are different  *)
(* objects, as they are in JavaScript.                                     *)
(***************************************************************************)
EXTENDS Integers, Sequences, FiniteSets, TLC

VARIABLES
    state,          \* value returned by the last render of usePersistedState
    isHydrated,     \* isHydrated as returned by the last render
    isInitialValue, \* TRUE iff nextState is the initialValue object itself (Object.is)
    nextState,      \* value React holds after every setState call made so far
    nextIsHydrated, \* isHydrated after every setIsHydrated call made so far
    stateQueued,    \* a setState call that did not bail out awaits the next render
    loadPending,    \* the load effect of the first commit has not run yet
    persistPending, \* a persist effect of the last commit has not run yet
    lastPersist,    \* outcome of the last run of the persist effect
    store,          \* localStorage: key -> document
    timers,         \* callbacks scheduled with setTimeout(.., 0), in firing order
    history,        \* the tool-call events rendered so far
    seed,           \* the state the rendered events started from
    lastOp,         \* the last handler or callback that called a state setter
    uncaught,       \* TRUE once an error has left a handler or an effect
    interrupt       \* the interrupt event on offer and the answers sent for it

vars == << state, isHydrated, isInitialValue, nextState, nextIsHydrated, stateQueued,
           loadPending, persistPending, lastPersist, store, timers, history,
           seed, lastOp, uncaught, interrupt >>

(***************************************************************************)
(* Bounds of the model.                                                    *)
(***************************************************************************)
MaxEvents == 2
MaxTimers == 2
MaxSearchEvents == 3
MaxPreferenceEvents == 3
MaxDays == 3
MaxToolEvents == 2
MaxCallEvents == 2
MaxResolves == 2
MaxActionEvents == 3
MaxMessages == 3
MaxLimit == 4

(***************************************************************************)
(* JavaScript values.                                                      *)
(***************************************************************************)
Undef == [jstype |-> "undefined"]
Null == [jstype |-> "null"]
Str(s) == [jstype |-> "string", s |-> s]
Num(n) == [jstype |-> "number", n |-> n]
Bool(b) == [jstype |-> "boolean", b |-> b]
Arr(items) == [jstype |-> "array", items |-> items]
EmptyObj == << >>

IsObject(v) == "jstype" \notin DOMAIN v
IsArray(v) == ~IsObject(v) /\ v.jstype = "array"
IsString(v) == ~IsObject(v) /\ v.jstype = "string"
IsNullish(v) == ~IsObject(v) /\ v.jstype \in {"undefined", "null"}

\* ToBoolean: undefined, null, false, 0 and "" are falsy; all else is truthy.
Truthy(v) ==
    IF IsObject(v) THEN TRUE
    ELSE CASE v.jstype = "undefined" -> FALSE
           [] v.jstype = "null" -> FALSE
           [] v.jstype = "boolean" -> v.b
           [] v.jstype = "number" -> v.n # 0
           [] v.jstype = "string" -> v.s # ""
           [] OTHER -> TRUE

\* a || b
Or(a, b) == IF Truthy(a) THEN a ELSE b
\* a ?? b
Coalesce(a, b) == IF IsNullish(a) THEN b ELSE a
\* o.k : undefined when the key is absent
Get(o, k) == IF k \in DOMAIN o THEN o[k] ELSE Undef
\* o?.k
OptGet(o, k) == IF IsNullish(o) THEN Undef ELSE Get(o, k)
\* { ...prev, ...upd }
Spread(prev, upd) == upd @@ prev

(***************************************************************************)
(* JSON.  A stored document is the JSON tree of the value that was         *)
(* serialized: JSON.stringify omits the object keys whose value is         *)
(* undefined and writes null for an undefined array element.               *)
(***************************************************************************)
RECURSIVE ToJSON(_)
ToJSON(v) ==
    IF IsObject(v)
    THEN [k \in {x \in DOMAIN v : v[x] # Undef} |-> ToJSON(v[k])]
    ELSE IF v.jstype = "array"
         THEN Arr([j \in DOMAIN v.items |->
                     IF v.items[j] = Undef THEN Null ELSE ToJSON(v.items[j])])
         ELSE v

\* What localStorage holds under a key: nothing (getItem returns null), the empty
\* string, a text JSON.parse rejects, or the text of a JSON tree.
NoDocument == [kind |-> "absent"]
EmptyText == [kind |-> "empty"]
CorruptText == [kind |-> "corrupt"]
JSONstringify(v) == [kind |-> "json", json |-> ToJSON(v)]
JSONparse(doc) == doc.json

(***************************************************************************)
(* usePersistedState: the value the load effect leaves in the hook, given  *)
(* what getItem returned and the value the hook held.  A document that     *)
(* does not parse throws inside the try block and the value is kept.       *)
(***************************************************************************)
\* Faulty variant of loadedState: the stored document is merged under the value the
\* hook holds, setState(prev => ({ ...parsed, ...prev })).
loadedState_mergesUnder(stored, current) ==
    IF stored.kind = "json" THEN Spread(JSONparse(stored), current) ELSE current

loadedState(stored, current) ==
    IF stored.kind \in {"corrupt", "json"}
    THEN IF stored.kind = "json" THEN JSONparse(stored) ELSE current
    ELSE current

(***************************************************************************)
(* Strings: the helpers behind template literals and                       *)
(* interests.split(',').map(s => s.trim()).filter(Boolean).                *)
(***************************************************************************)
\* `${v}` for a number or a string
Template(v) == IF v.jstype = "number" THEN ToString(v.n) ELSE v.s

RECURSIVE SplitFrom(_, _, _)
SplitFrom(s, start, i) ==
    IF i > Len(s) THEN << SubSeq(s, start, Len(s)) >>
    ELSE IF SubSeq(s, i, i) = ","
         THEN << SubSeq(s, start, i - 1) >> \o SplitFrom(s, i + 1, i + 1)
         ELSE SplitFrom(s, start, i + 1)
\* s.split(',')
Split(s) == SplitFrom(s, 1, 1)

RECURSIVE TrimLeft(_)
TrimLeft(s) ==
    IF Len(s) > 0 /\ SubSeq(s, 1, 1) = " " THEN TrimLeft(SubSeq(s, 2, Len(s))) ELSE s
RECURSIVE TrimRight(_)
TrimRight(s) ==
    IF Len(s) > 0 /\ SubSeq(s, Len(s), Len(s)) = " "
    THEN TrimRight(SubSeq(s, 1, Len(s) - 1)) ELSE s
\* s.trim()
Trim(s) == TrimRight(TrimLeft(s))

RECURSIVE FilterNonEmpty(_)
\* list.filter(Boolean) on a list of strings
FilterNonEmpty(q) ==
    IF q = << >> THEN << >>
    ELSE IF Head(q) = "" THEN FilterNonEmpty(Tail(q))
         ELSE << Head(q) >> \o FilterNonEmpty(Tail(q))

RECURSIVE FindFrom(_, _, _, _)
FindFrom(q, k, v, j) ==
    IF j > Len(q) THEN Undef
    ELSE IF Get(q[j], k) = v THEN q[j] ELSE FindFrom(q, k, v, j + 1)
\* a.find(p => p[k] === v): the first such element, undefined when there is none
Find(a, k, v) == FindFrom(a.items, k, v, 1)

(***************************************************************************)
(* UnifiedState and its default.                                           *)
(***************************************************************************)
initialState ==
    [activeTask |-> Str("none"),
     medicine |-> [stage |-> Str("idle"),
                   medicineName |-> Str(""),
                   location |-> Str(""),
                   pharmacies |-> Arr(<< >>),
                   selectedPharmacy |-> Null,
                   callResult |-> Null],
     travel |-> [stage |-> Str("idle"),
                 preferences |-> EmptyObj,
                 itinerary |-> Arr(<< >>),
                 totalCost |-> Num(0),
                 progress |-> Num(0)]]

(***************************************************************************)
(* The functional updates scheduled by the tool-call renders.              *)
(***************************************************************************)
\* Faulty variant of search_pharmacies_pending: the stage is left as it was.
search_pharmacies_pending_keepsStage(args, prev) ==
    Spread(prev,
      [activeTask |-> Str("medicine"),
       medicine |-> Spread(prev.medicine,
         [medicineName |-> Or(OptGet(args, "medicine_name"), prev.medicine.medicineName),
          location |-> Or(OptGet(args, "location"), prev.medicine.location)])])

search_pharmacies_pending(args, prev) ==
    Spread(prev,
      [activeTask |-> Str("medicine"),
       medicine |-> Spread(prev.medicine,
         [stage |-> Str("searching"),
          medicineName |-> Or(OptGet(args, "medicine_name"), prev.medicine.medicineName),
          location |-> Or(OptGet(args, "location"), prev.medicine.location)])])

\* Faulty variant of mapPharmacy: the generated id counts from 1.
mapPharmacy_oneBased(p, i) ==
    [id |-> Or(Get(p, "id"), Str("pharmacy-" \o ToString(i + 1))),
     name |-> Get(p, "name"),
     address |-> Get(p, "address"),
     distance |-> Or(Get(p, "distance_km"), Num(1)),
     phone |-> Or(Get(p, "phone"), Str("Contact via website")),
     openNow |-> Coalesce(Get(p, "is_open"), Bool(TRUE)),
     hours |-> Or(Get(p, "hours"), Str("Check website for hours")),
     rating |-> Or(Get(p, "rating"), Num(4)),
     hasStock |-> Coalesce(Get(p, "has_medicine"), Null),
     price |-> Or(Get(p, "estimated_price"), Null)]

mapPharmacy(p, i) ==
    [id |-> Or(Get(p, "id"), Str("pharmacy-" \o ToString(i))),
     name |-> Get(p, "name"),
     address |-> Get(p, "address"),
     distance |-> Or(Get(p, "distance_km"), Num(1)),
     phone |-> Or(Get(p, "phone"), Str("Contact via website")),
     openNow |-> Coalesce(Get(p, "is_open"), Bool(TRUE)),
     hours |-> Or(Get(p, "hours"), Str("Check website for hours")),
     rating |-> Or(Get(p, "rating"), Num(4)),
     hasStock |-> Coalesce(Get(p, "has_medicine"), Null),
     price |-> Or(Get(p, "estimated_price"), Null)]

\* Faulty variant of search_pharmacies_complete: the task and the names are left to
\* the update of the pending event.
search_pharmacies_complete_afterPending(args, result, prev) ==
    Spread(prev,
      [medicine |-> Spread(prev.medicine,
         [stage |-> Str("found_pharmacies"),
          pharmacies |-> Arr([j \in DOMAIN result.pharmacies.items |->
                                mapPharmacy(result.pharmacies.items[j], j - 1)])])])

\* Faulty variant of search_pharmacies_complete: a new list drops the selection and
\* the call result.
search_pharmacies_complete_clearsSelection(args, result, prev) ==
    Spread(prev,
      [activeTask |-> Str("medicine"),
       medicine |-> Spread(prev.medicine,
         [stage |-> Str("found_pharmacies"),
          medicineName |-> Or(OptGet(args, "medicine_name"), prev.medicine.medicineName),
          location |-> Or(OptGet(args, "location"), prev.medicine.location),
          pharmacies |-> Arr([j \in DOMAIN result.pharmacies.items |->
                                mapPharmacy(result.pharmacies.items[j], j - 1)]),
          selectedPharmacy |-> Null,
          callResult |-> Null])])

search_pharmacies_complete(args, result, prev) ==
    Spread(prev,
      [activeTask |-> Str("medicine"),
       medicine |-> Spread(prev.medicine,
         [stage |-> Str("found_pharmacies"),
          medicineName |-> Or(OptGet(args, "medicine_name"), prev.medicine.medicineName),
          location |-> Or(OptGet(args, "location"), prev.medicine.location),
          pharmacies |-> Arr([j \in DOMAIN result.pharmacies.items |->
                                mapPharmacy(result.pharmacies.items[j], j - 1)])])])

check_availability_complete(args, result, prev) ==
    Spread(prev,
      [medicine |-> Spread(prev.medicine,
         [stage |-> Str("checking_availability"),
          pharmacies |-> Arr([j \in DOMAIN prev.medicine.pharmacies.items |->
             LET p == prev.medicine.pharmacies.items[j] IN
             IF Get(p, "name") = args.pharmacy_name
             THEN Spread(p, [hasStock |-> Get(result, "in_stock"),
                             price |-> Or(Get(result, "price_per_unit"), Null)])
             ELSE p])])])

\* Faulty variant of call_pharmacy_complete: no fallback to the previous selection.
call_pharmacy_complete_dropsSelection(args, result, prev) ==
    LET selectedPharmacy == OptGet(args, "pharmacy_name") IN
    Spread(prev,
      [medicine |-> Spread(prev.medicine,
         [stage |-> Str("completed"),
          selectedPharmacy |->
             Or(Find(prev.medicine.pharmacies, "name", selectedPharmacy), Null),
          callResult |->
             [available |-> Get(result, "available"),
              quantity |-> Or(Get(result, "quantity"), Num(0)),
              price |-> Or(Get(result, "price"), Num(0)),
              transcript |-> Or(Get(result, "transcript"), Arr(<< >>))]])])

\* Faulty variant of call_pharmacy_complete: the result of the call leaves the task in
\* the calling stage.
call_pharmacy_complete_calling(args, result, prev) ==
    LET selectedPharmacy == OptGet(args, "pharmacy_name") IN
    Spread(prev,
      [medicine |-> Spread(prev.medicine,
         [stage |-> Str("calling"),
          selectedPharmacy |->
             Or(Find(prev.medicine.pharmacies, "name", selectedPharmacy),
                prev.medicine.selectedPharmacy),
          callResult |->
             [available |-> Get(result, "available"),
              quantity |-> Or(Get(result, "quantity"), Num(0)),
              price |-> Or(Get(result, "price"), Num(0)),
              transcript |-> Or(Get(result, "transcript"), Arr(<< >>))]])])

call_pharmacy_complete(args, result, prev) ==
    LET selectedPharmacy == OptGet(args, "pharmacy_name") IN
    Spread(prev,
      [medicine |-> Spread(prev.medicine,
         [stage |-> Str("completed"),
          selectedPharmacy |->
             Or(Find(prev.medicine.pharmacies, "name", selectedPharmacy),
                prev.medicine.selectedPharmacy),
          callResult |->
             [available |-> Get(result, "available"),
              quantity |-> Or(Get(result, "quantity"), Num(0)),
              price |-> Or(Get(result, "price"), Num(0)),
              transcript |-> Or(Get(result, "transcript"), Arr(<< >>))]])])

parseInterests(interests, prev) ==
    IF ~Truthy(interests) THEN Or(Get(prev.travel.preferences, "interests"), Arr(<< >>))
    ELSE IF IsArray(interests) THEN interests
    ELSE IF IsString(interests)
         THEN LET parts == Split(interests.s)
                  trimmed == [j \in DOMAIN parts |-> Trim(parts[j])]
                  kept == FilterNonEmpty(trimmed)
              IN Arr([j \in DOMAIN kept |-> Str(kept[j])])
         ELSE Arr(<< >>)

\* Faulty variant of update_preferences_complete: the fields are taken from the
\* arguments alone, without falling back to the preferences already known.
update_preferences_complete_replaces(args, prev) ==
    LET old == prev.travel.preferences IN
    Spread(prev,
      [activeTask |-> Str("travel"),
       travel |-> Spread(prev.travel,
         [stage |-> Str("gathering_preferences"),
          preferences |-> Spread(old,
            [destination |-> Get(args, "destination"),
             startDate |-> Get(args, "start_date"),
             endDate |-> Get(args, "end_date"),
             budget |-> Get(args, "budget"),
             interests |-> parseInterests(Get(args, "interests"), prev),
             pace |-> Get(args, "pace"),
             travelers |-> Get(args, "travelers")])])])

update_preferences_complete(args, prev) ==
    LET old == prev.travel.preferences IN
    Spread(prev,
      [activeTask |-> Str("travel"),
       travel |-> Spread(prev.travel,
         [stage |-> Str("gathering_preferences"),
          preferences |-> Spread(old,
            [destination |-> Or(Get(args, "destination"), Get(old, "destination")),
             startDate |-> Or(Get(args, "start_date"), Get(old, "startDate")),
             endDate |-> Or(Get(args, "end_date"), Get(old, "endDate")),
             budget |-> Or(Get(args, "budget"), Get(old, "budget")),
             interests |-> parseInterests(Get(args, "interests"), prev),
             pace |-> Or(Get(args, "pace"), Get(old, "pace")),
             travelers |-> Or(Get(args, "travelers"), Get(old, "travelers"))])])])

\* Faulty variant of generate_itinerary_pending: starting a plan puts the medicine
\* sub-state back to its default.
generate_itinerary_pending_clearsMedicine(prev) ==
    Spread(prev,
      [activeTask |-> Str("travel"),
       medicine |-> initialState.medicine,
       travel |-> Spread(prev.travel,
         [stage |-> Str("planning"),
          progress |-> Num(50)])])

\* Faulty variant of generate_itinerary_pending: a pending event restarts the progress.
generate_itinerary_pending_restarts(prev) ==
    Spread(prev,
      [activeTask |-> Str("travel"),
       travel |-> Spread(prev.travel,
         [stage |-> Str("planning"),
          progress |-> Num(0)])])

generate_itinerary_pending(prev) ==
    Spread(prev,
      [activeTask |-> Str("travel"),
       travel |-> Spread(prev.travel,
         [stage |-> Str("planning"),
          progress |-> Num(50)])])

processedActivity(day, dayIndex, act, actIndex) ==
    Spread(act,
      [id |-> Or(Get(act, "id"),
                 Str("day" \o Template(Or(Get(day, "day"), Num(dayIndex + 1)))
                     \o "-act" \o ToString(actIndex + 1))),
       cost |-> Or(Get(act, "cost"), Num(0)),
       type |-> Or(Get(act, "type"), Str("activity"))])

\* Faulty variant of processedDay: a missing day number is filled with the 0-based
\* position.
processedDay_zeroBased(day, dayIndex) ==
    LET activities == Or(Get(day, "activities"), Arr(<< >>)) IN
    Spread(day,
      [day |-> Coalesce(Get(day, "day"), Num(dayIndex)),
       activities |-> Arr([j \in DOMAIN activities.items |->
                             processedActivity(day, dayIndex, activities.items[j], j - 1)])])

processedDay(day, dayIndex) ==
    LET activities == Or(Get(day, "activities"), Arr(<< >>)) IN
    Spread(day,
      [day |-> Or(Get(day, "day"), Num(dayIndex + 1)),
       activities |-> Arr([j \in DOMAIN activities.items |->
                             processedActivity(day, dayIndex, activities.items[j], j - 1)])])

processedItinerary(result) ==
    Arr([j \in DOMAIN result.itinerary.items |->
           processedDay(result.itinerary.items[j], j - 1)])

RECURSIVE sumActivities(_, _)
\* day.activities.reduce((daySum, act) => daySum + (act.cost || 0), 0), from entry j
sumActivities(acts, j) ==
    IF j > Len(acts) THEN 0
    ELSE Or(Get(acts[j], "cost"), Num(0)).n + sumActivities(acts, j + 1)

RECURSIVE sumDays(_, _)
\* processedItinerary.reduce((sum, day) => sum + <sum of the day>, 0), from entry j
sumDays(days, j) ==
    IF j > Len(days) THEN 0
    ELSE sumActivities(days[j].activities.items, 1) + sumDays(days, j + 1)

sumOfCosts(itinerary) == Num(sumDays(itinerary.items, 1))

\* Faulty variant of generate_itinerary_complete: the cost of the new itinerary is
\* added to the total already shown.
generate_itinerary_complete_accumulates(result, prev) ==
    Spread(prev,
      [activeTask |-> Str("travel"),
       travel |-> Spread(prev.travel,
         [stage |-> Str("completed"),
          itinerary |-> processedItinerary(result),
          totalCost |-> Num(prev.travel.totalCost.n
                            + sumOfCosts(processedItinerary(result)).n),
          progress |-> Num(100)])])

generate_itinerary_complete(result, prev) ==
    Spread(prev,
      [activeTask |-> Str("travel"),
       travel |-> Spread(prev.travel,
         [stage |-> Str("completed"),
          itinerary |-> processedItinerary(result),
          totalCost |-> Or(Get(result, "total_cost"),
                           sumOfCosts(processedItinerary(result))),
          progress |-> Num(100)])])

modify_itinerary_complete(result, prev) ==
    Spread(prev,
      [travel |-> Spread(prev.travel,
         [itinerary |-> result.itinerary,
          totalCost |-> Or(Get(result, "total_estimated_cost"), prev.travel.totalCost)])])

\* Faulty variant of select_pharmacy_update: the new state is built over the default
\* instead of the previous state.
select_pharmacy_update_overDefault(pharmacy, prev) ==
    Spread(initialState,
           [medicine |-> Spread(prev.medicine, [selectedPharmacy |-> pharmacy])])

\* the functional update of the select_pharmacy action
select_pharmacy_update(pharmacy, prev) ==
    Spread(prev, [medicine |-> Spread(prev.medicine, [selectedPharmacy |-> pharmacy])])

(***************************************************************************)
(* A scheduled callback names the update it will pass to setState.         *)
(***************************************************************************)
Updater(fn, args, result) == [fn |-> fn, args |-> args, result |-> result]

ApplyUpdater(u, prev) ==
    CASE u.fn = "search_pharmacies_pending" -> search_pharmacies_pending(u.args, prev)
      [] u.fn = "search_pharmacies_complete" -> search_pharmacies_complete(u.args, u.result, prev)
      [] u.fn = "check_availability_complete" -> check_availability_complete(u.args, u.result, prev)
      [] u.fn = "call_pharmacy_complete" -> call_pharmacy_complete(u.args, u.result, prev)
      [] u.fn = "update_preferences_complete" -> update_preferences_complete(u.args, prev)
      [] u.fn = "generate_itinerary_pending" -> generate_itinerary_pending(prev)
      [] u.fn = "generate_itinerary_complete" -> generate_itinerary_complete(u.result, prev)
      [] u.fn = "modify_itinerary_complete" -> modify_itinerary_complete(u.result, prev)

(***************************************************************************)
(* The render functions registered with useRenderToolCall: the callbacks   *)
(* one render pass of a tool call schedules, in scheduling order.          *)
(***************************************************************************)
search_pharmacies_render(status, args, result) ==
    LET isLoading == status # "complete" IN
    (IF isLoading THEN << Updater("search_pharmacies_pending", args, result) >> ELSE << >>)
    \o
    (IF status = "complete" /\ Truthy(OptGet(result, "success"))
          /\ Truthy(OptGet(result, "pharmacies"))
     THEN << Updater("search_pharmacies_complete", args, result) >> ELSE << >>)

check_availability_render(status, args, result) ==
    IF status = "complete" /\ Truthy(result) /\ Truthy(OptGet(args, "pharmacy_name"))
    THEN << Updater("check_availability_complete", args, result) >> ELSE << >>

call_pharmacy_render(status, args, result) ==
    IF status = "complete" /\ Truthy(result)
    THEN << Updater("call_pharmacy_complete", args, result) >> ELSE << >>

update_preferences_render(status, args, result) ==
    IF status = "complete" /\ Truthy(args)
    THEN << Updater("update_preferences_complete", args, result) >> ELSE << >>

generate_itinerary_render(status, args, result) ==
    LET isLoading == status # "complete" IN
    (IF isLoading THEN << Updater("generate_itinerary_pending", args, result) >> ELSE << >>)
    \o
    (IF status = "complete" /\ Truthy(OptGet(result, "success"))
          /\ Truthy(OptGet(result, "itinerary"))
     THEN << Updater("generate_itinerary_complete", args, result) >> ELSE << >>)

modify_itinerary_render(status, args, result) ==
    IF status = "complete" /\ Truthy(OptGet(result, "itinerary"))
    THEN << Updater("modify_itinerary_complete", args, result) >> ELSE << >>

\* A tool-call event as the router hands it to the render registered under its name;
\* a name with no state-changing render (search_activities, unknown names) schedules nothing.
ToolEvent(name, status, args, result) ==
    [name |-> name, status |-> status, args |-> args, result |-> result]

Scheduled(ev) ==
    CASE ev.name = "search_pharmacies" -> search_pharmacies_render(ev.status, ev.args, ev.result)
      [] ev.name = "check_availability" -> check_availability_render(ev.status, ev.args, ev.result)
      [] ev.name = "call_pharmacy" -> call_pharmacy_render(ev.status, ev.args, ev.result)
      [] ev.name = "update_preferences" -> update_preferences_render(ev.status, ev.args, ev.result)
      [] ev.name = "generate_itinerary" -> generate_itinerary_render(ev.status, ev.args, ev.result)
      [] ev.name = "modify_itinerary" -> modify_itinerary_render(ev.status, ev.args, ev.result)
      [] OTHER -> << >>

RECURSIVE ApplyAll(_, _)
\* the updates of a queue applied in order, each to the result of the one before
ApplyAll(q, prev) == IF q = << >> THEN prev ELSE ApplyAll(Tail(q), ApplyUpdater(Head(q), prev))

\* the reducer of one event: the state after every update it schedules has run
Reduce(ev, prev) == ApplyAll(Scheduled(ev), prev)

(***************************************************************************)
(* Payloads of the search_pharmacies events.                               *)
(***************************************************************************)
PharmacyBare == [name |-> Str("CVS"), address |-> Str("123 Main")]
PharmacyFull ==
    [id |-> Str("walgreens-7"), name |-> Str("Walgreens"), address |-> Str("9 Oak"),
     distance_km |-> Num(2), rating |-> Num(3), phone |-> Str("555-0101"),
     is_open |-> Bool(FALSE), hours |-> Str("9-5"), has_medicine |-> Bool(FALSE),
     estimated_price |-> Num(5)]
PharmacyFalsy ==
    [id |-> Str(""), name |-> Str("Rite Aid"), address |-> Str("4 Elm"),
     rating |-> Num(0), phone |-> Str(""), has_medicine |-> Null]
PharmacyClash == [id |-> Str("pharmacy-1"), name |-> Str("Duane"), address |-> Str("1 Pine")]

SearchOk(list) == [success |-> Bool(TRUE), pharmacies |-> Arr(list)]
SearchResults ==
    { SearchOk(<< PharmacyBare, PharmacyFull >>),
      SearchOk(<< PharmacyFull, PharmacyFalsy, PharmacyBare >>),
      SearchOk(<< PharmacyClash, PharmacyBare >>),
      SearchOk(<< >>),
      [success |-> Bool(TRUE), count |-> Num(0)],
      [success |-> Bool(FALSE), error |-> Bool(TRUE), message |-> Str("search failed")],
      [pharmacies |-> Arr(<< PharmacyBare >>)],
      Undef }

SearchEvents ==
    { ToolEvent("search_pharmacies", "executing", a, Undef) :
        a \in { [medicine_name |-> Str("paracetamol"), location |-> Str("SF")],
                [medicine_name |-> Str(""), location |-> Str("")], Undef } }
    \cup
    { ToolEvent("search_pharmacies", "inProgress", [location |-> Str("NYC")], Undef) }
    \cup
    { ToolEvent("search_pharmacies", "complete", Undef, r) : r \in SearchResults }
    \cup
    { ToolEvent("search_pharmacies", "complete", [medicine_name |-> Str("ibuprofen")],
                SearchOk(<< PharmacyBare, PharmacyFull >>)),
      ToolEvent("search_pharmacies", "complete", [medicine_name |-> Str("")],
                SearchOk(<< PharmacyFalsy >>)) }

\* a state in which an earlier medicine task has run to its end
MedicineDone ==
    Reduce(ToolEvent("call_pharmacy", "complete", [pharmacy_name |-> Str("CVS")],
                     [available |-> Bool(TRUE), quantity |-> Num(10), price |-> Num(4),
                      transcript |-> Arr(<< Str("Pharmacist: hi") >>)]),
      Reduce(ToolEvent("search_pharmacies", "complete",
                       [medicine_name |-> Str("aspirin"), location |-> Str("LA")],
                       SearchOk(<< PharmacyBare >>)),
             initialState))

PharmacyTwin == [id |-> Str("cvs-2"), name |-> Str("CVS"), address |-> Str("77 Bay")]

\* a list with two entries of the same name, and a selection made earlier
MedicineFound ==
    Reduce(ToolEvent("search_pharmacies", "complete", Undef,
                     SearchOk(<< PharmacyFull, PharmacyBare, PharmacyTwin >>)),
           MedicineDone)

(***************************************************************************)
(* usePersistedState, called with the key and the default of the page.     *)
(***************************************************************************)
STORAGE_KEY == "pokus_unified_state"

\* Faulty variant of useStateInitial: a lazy initializer that reads the store.
useStateInitial_lazy(stored) == loadedState(stored, initialState)

\* useState(initialValue): the value of the first render
useStateInitial(stored) == initialState

\* Faulty variant of hydratedAfterLoad: setIsHydrated(true) inside the try block.
hydratedAfterLoad_insideTry(threw) == ~threw

\* setIsHydrated(true) follows the try/catch of the load effect
hydratedAfterLoad(threw) == TRUE

\* Faulty variant of persistEffectRuns: the dependency list lacks state.
persistEffectRuns_withoutState(stateChanged, hydratedChanged) == hydratedChanged

\* the dependency list [key, state, isHydrated] of the persist effect
persistEffectRuns(stateChanged, hydratedChanged) == stateChanged \/ hydratedChanged

\* Faulty variant of persistEffectWrites: no isHydrated guard.
persistEffectWrites_unguarded(hydrated) == TRUE

\* if (!isHydrated) return;  -- the persist effect goes on to setItem only when the
\* render it belongs to was hydrated
persistEffectWrites(hydrated) == hydrated

\* Faulty variant of persistedDocument: the effect serializes the value of the
\* first render (a stale closure).
persistedDocument_stale(v) == JSONstringify(initialState)

\* the document the persist effect hands to setItem
persistedDocument(v) == JSONstringify(v)

(***************************************************************************)
(* useLangGraphInterrupt: the call-confirmation interrupt.                 *)
(***************************************************************************)
\* no interrupt event has arrived
NoInterrupt == [value |-> Undef, shown |-> FALSE, responses |-> << >>]

\* Faulty variant of enabled: any event that names an action.
enabled_anyAction(eventValue) == Truthy(OptGet(eventValue, "action"))

\* enabled: ({ eventValue }) => eventValue?.action === 'confirm_pharmacy_call'
enabled(eventValue) == OptGet(eventValue, "action") = Str("confirm_pharmacy_call")

\* the argument of resolve in the onClick of "Call Now" and of "Cancel"
resolveArgument(approved) ==
    IF approved THEN JSONstringify([approved |-> Bool(TRUE)])
    ELSE JSONstringify([declined |-> Bool(TRUE)])

(***************************************************************************)
(* Sequential application of the reducers (the updates of one event run    *)
(* before the next event is rendered).                                     *)
(***************************************************************************)
InitReducer(seeds) ==
    /\ state \in seeds
    /\ isHydrated = FALSE
    /\ isInitialValue = FALSE
    /\ nextState = initialState
    /\ nextIsHydrated = FALSE
    /\ stateQueued = FALSE
    /\ loadPending = FALSE
    /\ persistPending = FALSE
    /\ lastPersist = "none"
    /\ store = [k \in {STORAGE_KEY} |-> NoDocument]
    /\ timers = << >>
    /\ history = << >>
    /\ seed = state
    /\ lastOp = "none"
    /\ uncaught = FALSE
    /\ interrupt = NoInterrupt

ApplyEvent(ev) ==
    /\ state' = Reduce(ev, state)
    /\ history' = Append(history, ev)
    /\ UNCHANGED << isHydrated, isInitialValue, nextState, nextIsHydrated, stateQueued,
                    loadPending, persistPending, lastPersist, store, timers,
                    seed, lastOp, uncaught, interrupt >>

InitSearch == InitReducer({initialState, MedicineDone})
NextSearch == \E ev \in SearchEvents : Len(history) < MaxSearchEvents /\ ApplyEvent(ev)
SpecSearch == InitSearch /\ [][NextSearch]_vars

(***************************************************************************)
(* C6.                                                                     *)
(***************************************************************************)
\* a complete event carries a successful result with a pharmacy list
SuccessWithList(ev) ==
    /\ ev.status = "complete"
    /\ ~IsNullish(ev.result)
    /\ Get(ev.result, "success") = Bool(TRUE)
    /\ IsArray(Get(ev.result, "pharmacies"))

RECURSIVE LastStageSet(_, _)
\* the stage written by the last event of h that writes the stage: searching by an
\* event that is not complete, found_pharmacies by a complete event with a successful
\* result and a list; the stage before h when no event of h writes it
LastStageSet(h, before) ==
    IF h = << >> THEN before
    ELSE LET ev == h[Len(h)] IN
         IF ev.status # "complete" THEN Str("searching")
         ELSE IF SuccessWithList(ev) THEN Str("found_pharmacies")
              ELSE LastStageSet(SubSeq(h, 1, Len(h) - 1), before)

LastCompleteSucceeded(h) ==
    LET completes == {j \in DOMAIN h : h[j].status = "complete"} IN
    /\ completes # {}
    /\ SuccessWithList(h[CHOOSE j \in completes : \A i \in completes : i <= j])

\* C6 as stated: after any sequence of search_pharmacies events, medicine.stage is
\* found_pharmacies if and only if the last complete event of the sequence carried a
\* successful result with a pharmacy list, and otherwise it is the stage set by the
\* last event that changed the stage.
C6_StageIffLastCompleteSucceeded ==
    /\ (state.medicine.stage = Str("found_pharmacies")) <=> LastCompleteSucceeded(history)
    /\ ~LastCompleteSucceeded(history)
         => state.medicine.stage = LastStageSet(history, seed.medicine.stage)

\* C6 as amended: after any sequence of search_pharmacies events, medicine.stage is
\* the stage written by the last event of the sequence that writes the stage
\* (searching by a pending event, found_pharmacies by a complete event with a
\* successful result and a pharmacy list), and the stage the sequence started from
\* when no event writes it; a complete event without such a result writes nothing.
C6_StageIsLastStageSet ==
    state.medicine.stage = LastStageSet(history, seed.medicine.stage)

\* a successful complete, then a pending, then a failed complete: the stage is still
\* the one the pending event set
C6_Witness ==
    /\ Len(history) = 3
    /\ SuccessWithList(history[1])
    /\ history[2].status # "complete"
    /\ history[3].status = "complete" /\ ~SuccessWithList(history[3])
    /\ state.medicine.stage = Str("searching")

(***************************************************************************)
(* C10.                                                                    *)
(***************************************************************************)
\* the value an event supplies for medicineName or location, a non-empty string
Supplies(ev, k) == IsString(OptGet(ev.args, k)) /\ OptGet(ev.args, k).s # ""

TakenFromArgs(ev, k, old) == IF Supplies(ev, k) THEN ev.args[k] ELSE old

\* entry j of the stored list is entry j of the result list, normalized
NormalizedEntry(entry, p, j) ==
    /\ entry.name = Get(p, "name")
    /\ entry.address = Get(p, "address")
    /\ "id" \notin DOMAIN p => entry.id = Str("pharmacy-" \o ToString(j - 1))
    /\ Truthy(Get(p, "id")) => entry.id = p.id
    /\ "phone" \notin DOMAIN p => entry.phone = Str("Contact via website")
    /\ Truthy(Get(p, "phone")) => entry.phone = p.phone
    /\ "rating" \notin DOMAIN p => entry.rating = Num(4)
    /\ Truthy(Get(p, "rating")) => entry.rating = p.rating
    /\ "has_medicine" \notin DOMAIN p => entry.hasStock = Null
    /\ ~IsNullish(Get(p, "has_medicine")) => entry.hasStock = p.has_medicine

C10_PendingStep(ev) ==
    /\ state'.activeTask = Str("medicine")
    /\ state'.medicine.stage = Str("searching")
    /\ state'.medicine.medicineName
         = TakenFromArgs(ev, "medicine_name", state.medicine.medicineName)
    /\ state'.medicine.location = TakenFromArgs(ev, "location", state.medicine.location)

C10_CompleteStep(ev) ==
    LET list == ev.result.pharmacies.items
        stored == state'.medicine.pharmacies.items
    IN /\ state'.medicine.stage = Str("found_pharmacies")
       /\ Len(stored) = Len(list)
       /\ \A j \in DOMAIN list : NormalizedEntry(stored[j], list[j], j)
       /\ state'.medicine.medicineName
            = TakenFromArgs(ev, "medicine_name", state.medicine.medicineName)
       /\ state'.medicine.location = TakenFromArgs(ev, "location", state.medicine.location)

\* C10: a search_pharmacies pending event sets activeTask = medicine and
\* medicine.stage = searching and takes medicineName and location from the args when
\* they are present (a non-empty string); a complete event with a successful result
\* and a pharmacy list sets medicine.stage = found_pharmacies and replaces
\* medicine.pharmacies by the result list, in result order, one entry per result
\* entry, with id pharmacy-<index> (from 0) when the id is missing, the placeholder
\* phone when missing, rating 4.0 when missing, hasStock null when missing, and keeps
\* the medicineName and location it found when it carries none.
C10_SearchPendingThenComplete ==
    [][ history' # history =>
          LET ev == history'[Len(history')] IN
          /\ ev.status # "complete" => C10_PendingStep(ev)
          /\ SuccessWithList(ev) => C10_CompleteStep(ev) ]_vars

\* Scenario A of the specification: pending with a name and a location, then a
\* successful complete without args whose first entry has neither id nor phone,
\* rating or stock.
C10_Witness ==
    /\ Len(history) = 2
    /\ history[1].status # "complete" /\ Supplies(history[1], "medicine_name")
    /\ SuccessWithList(history[2]) /\ IsNullish(history[2].args)
    /\ state.activeTask = Str("medicine")
    /\ state.medicine.stage = Str("found_pharmacies")
    /\ state.medicine.medicineName = Str("paracetamol")
    /\ state.medicine.location = Str("SF")
    /\ Len(state.medicine.pharmacies.items) = 2
    /\ state.medicine.pharmacies.items[1].id = Str("pharmacy-0")
    /\ state.medicine.pharmacies.items[1].name = Str("CVS")
    /\ state.medicine.pharmacies.items[1].hasStock = Null

(***************************************************************************)
(* Payloads of the update_preferences events and their sequences.          *)
(***************************************************************************)
PreferenceArgs ==
    { [destination |-> Str("Bali"), interests |-> Str("food, culture")],
      [start_date |-> Str("2025-01-01"), end_date |-> Str("2025-01-07"),
       budget |-> Str("moderate"), pace |-> Str("relaxed"), travelers |-> Num(2)],
      [destination |-> Str("Rome"), interests |-> Arr(<< Str("art"), Str("wine") >>),
       budget |-> Str("luxury")],
      [destination |-> Str(""), travelers |-> Num(0), interests |-> Str("")],
      [interests |-> Arr(<< >>), pace |-> Str("packed")],
      [interests |-> Str(" , beach,,hiking ")],
      [interests |-> Arr(<< Str(" spa "), Str(""), Str("golf") >>)],
      EmptyObj,
      Undef }

PreferenceEvents ==
    { ToolEvent("update_preferences", "complete", a, Undef) : a \in PreferenceArgs }
    \cup
    { ToolEvent("update_preferences", "executing", [destination |-> Str("Oslo")], Undef) }

InitPreferences == InitReducer({initialState})
NextPreferences ==
    \E ev \in PreferenceEvents : Len(history) < MaxPreferenceEvents /\ ApplyEvent(ev)
SpecPreferences == InitPreferences /\ [][NextPreferences]_vars

(***************************************************************************)
(* C8.                                                                     *)
(***************************************************************************)
PreferenceFields ==
    {"destination", "startDate", "endDate", "budget", "interests", "pace", "travelers"}

\* the argument of update_preferences that carries a preference field
ArgOf(f) ==
    CASE f = "startDate" -> "start_date"
      [] f = "endDate" -> "end_date"
      [] OTHER -> f

Preference(s, f) == Get(s.travel.preferences, f)
Known(v) == ~IsNullish(v)
Omits(ev, f) == IsNullish(ev.args) \/ ArgOf(f) \notin DOMAIN ev.args

C8_KeepsKnown(ev) ==
    \A f \in PreferenceFields :
        Known(Preference(state, f)) /\ Omits(ev, f)
            => Preference(state', f) = Preference(state, f)

\* C8 as stated: across update_preferences complete events, a preference field that
\* holds a known value keeps it when a later event omits the field, and a field
\* changes only when the event supplies a value for it.
C8_ChangesOnlyWhenSupplied ==
    [][ history' # history =>
          LET ev == history'[Len(history')] IN
          /\ C8_KeepsKnown(ev)
          /\ \A f \in PreferenceFields :
                Preference(state', f) # Preference(state, f) => ~Omits(ev, f) ]_vars

\* C8 as amended: across update_preferences complete events, a preference field that
\* holds a known value keeps it when a later event omits the field, and a field
\* changes only when the event supplies a value for it, except that interests, while
\* it is unknown, becomes the empty list under an event that omits it.
C8_KnownPreferencesKept ==
    [][ history' # history =>
          LET ev == history'[Len(history')] IN
          /\ C8_KeepsKnown(ev)
          /\ \A f \in PreferenceFields :
                Preference(state', f) # Preference(state, f)
                    => \/ ~Omits(ev, f)
                       \/ /\ f = "interests"
                          /\ Preference(state, f) = Undef
                          /\ Preference(state', f) = Arr(<< >>) ]_vars

\* destination and interests are known from the first event and kept by a second
\* event that supplies neither
C8_Witness ==
    /\ Len(history) >= 2
    /\ history[2].status = "complete"
    /\ ~IsNullish(history[2].args)
    /\ Omits(history[2], "destination") /\ Omits(history[2], "interests")
    /\ ~Omits(history[2], "travelers")
    /\ Preference(state, "destination") = Str("Bali")
    /\ Preference(state, "interests") = Arr(<< Str("food"), Str("culture") >>)
    /\ Preference(state, "travelers") = Num(2)

(***************************************************************************)
(* Payloads of the generate_itinerary events.                              *)
(***************************************************************************)
ActBare == [time |-> Str("09:00"), title |-> Str("Temple")]
ActFull ==
    [id |-> Str("a-42"), time |-> Str("12:00"), title |-> Str("Lunch"),
     type |-> Str("food"), cost |-> Num(25)]
ActFalsy == [id |-> Str(""), title |-> Str("Walk"), type |-> Str(""), cost |-> Num(0)]
ActOdd == [title |-> Str("Museum"), type |-> Str("museum"), cost |-> Null]

DayBare == [theme |-> Str("Arrival"), activities |-> Arr(<< ActBare, ActBare >>)]
DayFull ==
    [day |-> Num(3), date |-> Str("2025-01-03"), theme |-> Str("Food"),
     activities |-> Arr(<< ActFull, ActBare >>)]
DayZero == [day |-> Num(0), theme |-> Str("Old town"),
            activities |-> Arr(<< ActFalsy, ActOdd >>)]
DayNoActivities == [theme |-> Str("Rest")]
DayInputs == {DayBare, DayFull, DayZero, DayNoActivities}

\* the sequences of at most n days
DaySeqs(n) == UNION { [1..k -> DayInputs] : k \in 0..n }

ItineraryResults ==
    { [success |-> Bool(TRUE), itinerary |-> Arr(q)] : q \in DaySeqs(MaxDays) }
    \cup
    { [success |-> Bool(TRUE), itinerary |-> Arr(<< DayFull, DayBare >>),
       total_cost |-> Num(120)],
      [success |-> Bool(TRUE), itinerary |-> Arr(<< DayFull >>), total_cost |-> Num(0)],
      [success |-> Bool(TRUE), num_days |-> Num(0)],
      [success |-> Bool(FALSE), error |-> Bool(TRUE), message |-> Str("planning failed")],
      Undef }

ItineraryEvents ==
    { ToolEvent("generate_itinerary", "complete", [destination |-> Str("Bali")], r) :
        r \in ItineraryResults }
    \cup
    { ToolEvent("generate_itinerary", "executing", [destination |-> Str("Bali")], Undef) }

\* a state in which preferences are known and planning has started
TravelPlanning ==
    Reduce(ToolEvent("generate_itinerary", "executing", Undef, Undef),
      Reduce(ToolEvent("update_preferences", "complete",
                       [destination |-> Str("Bali"), travelers |-> Num(2)], Undef),
             initialState))

InitItinerary == InitReducer({initialState, TravelPlanning})
NextItinerary == \E ev \in ItineraryEvents : history = << >> /\ ApplyEvent(ev)
SpecItinerary == InitItinerary /\ [][NextItinerary]_vars

(***************************************************************************)
(* C9.                                                                     *)
(***************************************************************************)
SuccessWithItinerary(ev) ==
    /\ ev.status = "complete"
    /\ ~IsNullish(ev.result)
    /\ Get(ev.result, "success") = Bool(TRUE)
    /\ IsArray(Get(ev.result, "itinerary"))

ActivitiesOf(day) == IF "activities" \in DOMAIN day THEN day.activities.items ELSE << >>

\* every field other than those in `except` is carried over unchanged
SameOtherFields(out, in, except) ==
    \A k \in (DOMAIN in \cup DOMAIN out) \ except : Get(out, k) = Get(in, k)

\* the normalization of the fields an entry omits
C9_DefaultsFilled(days, stored) ==
    /\ Len(stored) = Len(days)
    /\ \A k \in DOMAIN days :
         LET acts == ActivitiesOf(days[k])
             out == stored[k].activities.items
         IN /\ SameOtherFields(stored[k], days[k], {"day", "activities"})
            /\ "day" \notin DOMAIN days[k] => stored[k].day = Num(k)
            /\ Len(out) = Len(acts)
            /\ \A j \in DOMAIN acts :
                 /\ SameOtherFields(out[j], acts[j], {"id", "cost", "type"})
                 /\ "id" \notin DOMAIN acts[j]
                      => out[j].id = Str("day" \o ToString(stored[k].day.n)
                                         \o "-act" \o ToString(j))
                 /\ "cost" \notin DOMAIN acts[j] => out[j].cost = Num(0)
                 /\ "type" \notin DOMAIN acts[j] => out[j].type = Str("activity")

\* C9 as stated: a successful generate_itinerary complete event whose days omit day
\* and whose activities omit id, cost and type yields an itinerary of the same length
\* and order in which the k-th day has day = k (from 1), each activity id is
\* day<day>-act<index>, each cost is 0 and each type is activity; supplied values of
\* these fields are kept.
C9_SuppliedValuesKept ==
    history # << >> /\ SuccessWithItinerary(history[1]) =>
        LET days == history[1].result.itinerary.items
            stored == state.travel.itinerary.items
        IN /\ C9_DefaultsFilled(days, stored)
           /\ \A k \in DOMAIN days :
                /\ "day" \in DOMAIN days[k] => stored[k].day = days[k].day
                /\ \A j \in DOMAIN ActivitiesOf(days[k]) :
                     \A f \in {"id", "cost", "type"} :
                        f \in DOMAIN ActivitiesOf(days[k])[j]
                            => stored[k].activities.items[j][f]
                                 = ActivitiesOf(days[k])[j][f]

\* C9 as amended: as stated, except that a supplied value of day, id, cost or type is
\* kept only when it is truthy; a supplied value that is falsy (day 0, an empty id,
\* an empty type, a null cost) is replaced like an omitted one (a cost of 0 stays 0).
C9_NormalizedItinerary ==
    history # << >> /\ SuccessWithItinerary(history[1]) =>
        LET days == history[1].result.itinerary.items
            stored == state.travel.itinerary.items
        IN /\ C9_DefaultsFilled(days, stored)
           /\ \A k \in DOMAIN days :
                /\ Truthy(Get(days[k], "day")) => stored[k].day = days[k].day
                /\ ~Truthy(Get(days[k], "day")) => stored[k].day = Num(k)
                /\ \A j \in DOMAIN ActivitiesOf(days[k]) :
                     LET act == ActivitiesOf(days[k])[j]
                         out == stored[k].activities.items[j]
                     IN /\ Truthy(Get(act, "id")) => out.id = act.id
                        /\ ~Truthy(Get(act, "id"))
                             => out.id = Str("day" \o ToString(stored[k].day.n)
                                             \o "-act" \o ToString(j))
                        /\ out.cost = IF Truthy(Get(act, "cost")) THEN act.cost ELSE Num(0)
                        /\ out.type = IF Truthy(Get(act, "type")) THEN act.type
                                      ELSE Str("activity")

\* three days: the first omits day and the ids, cost and type of its activities, the
\* second supplies day 3 and one full activity, the third has no activities
C9_Witness ==
    /\ history # << >> /\ SuccessWithItinerary(history[1])
    /\ history[1].result.itinerary.items = << DayBare, DayFull, DayNoActivities >>
    /\ LET stored == state.travel.itinerary.items IN
       /\ Len(stored) = 3
       /\ stored[1].day = Num(1) /\ stored[2].day = Num(3) /\ stored[3].day = Num(3)
       /\ stored[1].activities.items[2].id = Str("day1-act2")
       /\ stored[1].activities.items[2].cost = Num(0)
       /\ stored[1].activities.items[2].type = Str("activity")
       /\ stored[2].activities.items[1].id = Str("a-42")
       /\ stored[2].activities.items[2].id = Str("day3-act2")

(***************************************************************************)
(* Payloads of the six tools, for the runs that interleave them.           *)
(***************************************************************************)
CallOk ==
    [available |-> Bool(TRUE), quantity |-> Num(10), price |-> Num(4),
     transcript |-> Arr(<< Str("Pharmacist: hi") >>), message |-> Str("in stock")]
TwoDays == Arr(<< DayBare, DayFull >>)
ModifiedDays ==
    Arr(<< [day |-> Num(1), date |-> Str("2025-01-01"), theme |-> Str("Beach"),
            activities |-> Arr(<< [id |-> Str("day1-act1"), title |-> Str("Surf"),
                                   type |-> Str("activity"), cost |-> Num(40)] >>)] >>)

MedicineEvents ==
    { ToolEvent("search_pharmacies", "executing",
                [medicine_name |-> Str("paracetamol"), location |-> Str("SF")], Undef),
      ToolEvent("search_pharmacies", "complete", Undef,
                SearchOk(<< PharmacyBare, PharmacyFull >>)),
      ToolEvent("search_pharmacies", "complete", Undef,
                [success |-> Bool(FALSE), error |-> Bool(TRUE),
                 message |-> Str("search failed")]),
      ToolEvent("check_availability", "complete", [pharmacy_name |-> Str("CVS")],
                [in_stock |-> Bool(TRUE), price_per_unit |-> Num(4)]),
      ToolEvent("check_availability", "complete", [pharmacy_name |-> Str("Walgreens")],
                [error |-> Bool(TRUE), message |-> Str("lookup failed")]),
      ToolEvent("check_availability", "executing", [pharmacy_name |-> Str("CVS")], Undef),
      ToolEvent("call_pharmacy", "complete", [pharmacy_name |-> Str("CVS")], CallOk),
      ToolEvent("call_pharmacy", "complete", [pharmacy_name |-> Str("Nowhere")],
                [error |-> Bool(TRUE), message |-> Str("no answer")]),
      ToolEvent("call_pharmacy", "complete", Undef, Undef) }

TravelEvents ==
    { ToolEvent("update_preferences", "complete",
                [destination |-> Str("Bali"), interests |-> Str("food, culture")], Undef),
      ToolEvent("update_preferences", "complete",
                [travelers |-> Num(2), budget |-> Str("moderate")], Undef),
      ToolEvent("generate_itinerary", "executing", [destination |-> Str("Bali")], Undef),
      ToolEvent("generate_itinerary", "complete", Undef,
                [success |-> Bool(TRUE), itinerary |-> TwoDays]),
      ToolEvent("generate_itinerary", "complete", Undef,
                [success |-> Bool(FALSE), error |-> Bool(TRUE),
                 message |-> Str("planning failed")]),
      ToolEvent("modify_itinerary", "complete", [day |-> Num(1)],
                [itinerary |-> ModifiedDays, total_estimated_cost |-> Num(40)]),
      ToolEvent("modify_itinerary", "complete", [day |-> Num(1)],
                [itinerary |-> Arr(<< >>)]),
      ToolEvent("modify_itinerary", "complete", [day |-> Num(2)],
                [itinerary |-> ModifiedDays, total_estimated_cost |-> Num(0)]),
      ToolEvent("modify_itinerary", "complete", [day |-> Num(9)],
                [error |-> Bool(TRUE), message |-> Str("no such day")]),
      ToolEvent("search_activities", "complete", [destination |-> Str("Bali")], Undef) }

ToolEvents == MedicineEvents \cup TravelEvents

InitTools == InitReducer({initialState, MedicineDone, TravelPlanning})
NextTools == \E ev \in ToolEvents : Len(history) < MaxToolEvents /\ ApplyEvent(ev)
SpecTools == InitTools /\ [][NextTools]_vars

(***************************************************************************)
(* C2.                                                                     *)
(***************************************************************************)
\* the value a fresh container holds after its load step, when the store holds the
\* document the persist effect writes for v
Reloaded(v) == loadedState(persistedDocument(v), initialState)

RECURSIVE WithoutUndefined(_)
\* v without the object keys that hold undefined
WithoutUndefined(v) ==
    IF IsObject(v)
    THEN [k \in {x \in DOMAIN v : v[x] # Undef} |-> WithoutUndefined(v[k])]
    ELSE IF v.jstype = "array"
         THEN Arr([j \in DOMAIN v.items |-> WithoutUndefined(v.items[j])])
         ELSE v

RECURSIVE HasUndefinedField(_)
HasUndefinedField(v) ==
    IF IsObject(v)
    THEN \E k \in DOMAIN v : v[k] = Undef \/ HasUndefinedField(v[k])
    ELSE IF v.jstype = "array"
         THEN \E j \in DOMAIN v.items : HasUndefinedField(v.items[j])
         ELSE FALSE

\* C2 as stated: every UnifiedState reachable by tool events, written to the store as
\* JSON and reloaded by a fresh container, is deep-equal to the value before it was
\* persisted, fields that hold undefined or null included.
C2_RoundTripDeepEqual == Reloaded(state) = state

\* C2 as amended: every UnifiedState reachable by tool events, written to the store
\* as JSON and reloaded by a fresh container, equals the value before it was
\* persisted with the object fields that hold undefined left out (reading such a
\* field still yields undefined); fields that hold null, lists and their order are
\* reloaded as they were.
C2_RoundTripUpToUndefined == Reloaded(state) = WithoutUndefined(state)

\* a state with a field that holds undefined (a preference no event supplied), a
\* field that holds null and a non-empty list
C2_Witness ==
    /\ history # << >>
    /\ HasUndefinedField(state)
    /\ state.medicine.selectedPharmacy = Null
    /\ Len(state.medicine.pharmacies.items) > 0
    /\ Reloaded(state) # initialState

(***************************************************************************)
(* C7.                                                                     *)
(***************************************************************************)
Last(h) == h[Len(h)]

\* C7: for every tool reducer, every state and every complete event, applying the
\* event twice in a row yields the same UnifiedState as applying it once (the state
\* right after a complete event is a fixed point of that event).
C7_CompleteIdempotent ==
    (history # << >> /\ Last(history).status = "complete")
        => Reduce(Last(history), state) = state

\* the same complete event was rendered twice in a row and it changed the state the
\* first time
C7_Witness ==
    /\ Len(history) = 2
    /\ history[1] = history[2]
    /\ history[1].status = "complete"
    /\ state # seed
    /\ state = Reduce(history[1], seed)

(***************************************************************************)
(* The unified-state container: UnifiedChatPage over usePersistedState.    *)
(* state and isHydrated are the values of the last committed render;       *)
(* nextState and nextIsHydrated are the values once the queued setState    *)
(* calls are applied.  Passive effects run after a commit and before the   *)
(* next render; the updates of tool events run from setTimeout callbacks.  *)
(***************************************************************************)
\* the Reset button is rendered only when a task has left the idle stage
ResetVisible(s) ==
    s.medicine.stage # Str("idle") \/ s.travel.stage # Str("idle")

StoredDocuments ==
    { NoDocument, EmptyText, CorruptText,
      JSONstringify(initialState), JSONstringify(MedicineDone),
      JSONstringify(TravelPlanning) }

ContainerEvents ==
    { ToolEvent("search_pharmacies", "executing",
                [medicine_name |-> Str("paracetamol"), location |-> Str("SF")], Undef),
      ToolEvent("search_pharmacies", "complete", Undef, SearchOk(<< PharmacyBare >>)),
      ToolEvent("update_preferences", "complete",
                [destination |-> Str("Bali"), interests |-> Str("food, culture")], Undef),
      ToolEvent("generate_itinerary", "complete", Undef,
                [success |-> Bool(TRUE), itinerary |-> Arr(<< DayBare >>)]) }

Pending == stateQueued \/ nextIsHydrated # isHydrated \/ persistPending

InitContainer(documents) ==
    /\ store \in [{STORAGE_KEY} -> documents]
    /\ state = useStateInitial(store[STORAGE_KEY])
    /\ isHydrated = FALSE
    /\ isInitialValue = TRUE
    /\ nextState = state
    /\ nextIsHydrated = FALSE
    /\ stateQueued = FALSE
    /\ loadPending = TRUE
    /\ persistPending = FALSE
    /\ lastPersist = "none"
    /\ timers = << >>
    /\ history = << >>
    /\ seed = initialState
    /\ lastOp = "none"
    /\ uncaught = FALSE
    /\ interrupt = NoInterrupt

Init == InitContainer(StoredDocuments)

\* The effects of the mount: the load effect, then the persist effect of the mounted
\* render, which has isHydrated = false.
Load ==
    /\ loadPending
    /\ \E getItemThrows \in BOOLEAN :
        LET stored == store[STORAGE_KEY]
            threw == getItemThrows \/ stored.kind = "corrupt"
            parsed == ~getItemThrows /\ stored.kind = "json"
        IN  /\ nextState' = IF getItemThrows THEN nextState
                            ELSE loadedState(stored, nextState)
            /\ stateQueued' = (stateQueued \/ parsed)
            /\ isInitialValue' = (isInitialValue /\ ~parsed)
            /\ nextIsHydrated' = hydratedAfterLoad(threw)
            /\ lastOp' = IF threw THEN "loadFailed"
                         ELSE IF parsed THEN "loadParsed" ELSE "loadNothing"
    /\ loadPending' = FALSE
    /\ IF persistEffectWrites(isHydrated)
       THEN /\ lastPersist' = "written"
            /\ store' = [store EXCEPT ![STORAGE_KEY] = persistedDocument(state)]
       ELSE /\ lastPersist' = "skipped"
            /\ store' = store
    /\ UNCHANGED << state, isHydrated, persistPending, timers, history,
                    seed, uncaught, interrupt >>

\* A render commits the queued updates; the persist effect is scheduled when one
\* of its dependencies changed.
Render ==
    /\ ~loadPending
    /\ ~persistPending
    /\ stateQueued \/ nextIsHydrated # isHydrated
    /\ state' = nextState
    /\ isHydrated' = nextIsHydrated
    /\ stateQueued' = FALSE
    /\ persistPending' = persistEffectRuns(stateQueued, nextIsHydrated # isHydrated)
    /\ UNCHANGED << isInitialValue, nextState, nextIsHydrated, loadPending,
                    lastPersist, store, timers, history, seed, lastOp, uncaught, interrupt >>

\* The persist effect of the last committed render; setItem may throw (quota,
\* storage disabled), which the effect catches.
Persist ==
    /\ persistPending
    /\ persistPending' = FALSE
    /\ IF ~persistEffectWrites(isHydrated)
       THEN /\ lastPersist' = "skipped"
            /\ store' = store
       ELSE \E setItemThrows \in BOOLEAN :
              IF setItemThrows
              THEN /\ lastPersist' = "failed"
                   /\ store' = store
              ELSE /\ lastPersist' = "written"
                   /\ store' = [store EXCEPT ![STORAGE_KEY] = persistedDocument(state)]
    /\ UNCHANGED << state, isHydrated, isInitialValue, nextState, nextIsHydrated,
                    stateQueued, loadPending, timers, history, seed, lastOp, uncaught, interrupt >>

\* Faulty variant of renderPassState: setState called in the render function itself.
renderPassState_synchronous(ev, prev) == Reduce(ev, prev)

\* The value the update queue holds when a tool-call render function returns: every
\* setState call of the function sits in a setTimeout callback, none runs in the pass.
renderPassState(ev, prev) == prev

\* A tool-call render function: it schedules its updates with setTimeout(..., 0).
ToolRender(ev) ==
    /\ Len(history) < MaxEvents
    /\ Len(timers) + Len(Scheduled(ev)) <= MaxTimers
    /\ timers' = timers \o Scheduled(ev)
    /\ history' = Append(history, ev)
    /\ nextState' = renderPassState(ev, nextState)
    /\ UNCHANGED << state, isHydrated, isInitialValue, nextIsHydrated,
                    stateQueued, loadPending, persistPending, lastPersist, store,
                    seed, lastOp, uncaught, interrupt >>

\* Faulty variant of functionalUpdate: the callback builds the new value from the
\* state of the render that scheduled it, setState({ ...state, ... }).
functionalUpdate_fromRender(u, rendered, queued) == ApplyUpdater(u, rendered)

\* setState(prev => ...): React calls the function with the value the update queue
\* holds, whatever the last render showed
functionalUpdate(u, rendered, queued) == ApplyUpdater(u, queued)

\* A timer callback: setState(prev => ...), applied to the value the queue holds.
TimerFire ==
    /\ timers # << >>
    /\ nextState' = functionalUpdate(Head(timers), state, nextState)
    /\ timers' = Tail(timers)
    /\ stateQueued' = TRUE
    /\ isInitialValue' = FALSE
    /\ lastOp' = "update"
    /\ UNCHANGED << state, isHydrated, nextIsHydrated, loadPending, persistPending,
                    lastPersist, store, history, seed, uncaught, interrupt >>

\* The handler of the select_pharmacy action: it looks the pharmacy up in the state of
\* the last committed render and, when it finds one, queues a functional update; it
\* returns { selected: pharmacy_name, success: true } either way (the event is
\* recorded with the value returned; no pharmacy_name is passed here).
select_pharmacy(pharmacy_id) ==
    LET pharmacy == Find(state.medicine.pharmacies, "id", pharmacy_id) IN
    /\ Len(history) < MaxEvents
    /\ history' = Append(history, ToolEvent("select_pharmacy", "complete",
                                            [pharmacy_id |-> pharmacy_id],
                                            [selected |-> Undef, success |-> Bool(TRUE)]))
    /\ IF Truthy(pharmacy)
       THEN /\ nextState' = select_pharmacy_update(pharmacy, nextState)
            /\ stateQueued' = TRUE
            /\ isInitialValue' = FALSE
            /\ lastOp' = "select_pharmacy"
       ELSE UNCHANGED << nextState, stateQueued, isInitialValue, lastOp >>
    /\ UNCHANGED << state, isHydrated, nextIsHydrated, loadPending, persistPending,
                    lastPersist, store, timers, seed, uncaught, interrupt >>

\* An interrupt event of the agent arrives: the confirmation surface is rendered
\* for it when enabled accepts its value.  The render function reads the event only.
offerInterrupt(eventValue) ==
    /\ interrupt' = [value |-> eventValue, shown |-> enabled(eventValue),
                     responses |-> << >>]
    /\ UNCHANGED << state, isHydrated, isInitialValue, nextState, nextIsHydrated,
                    stateQueued, loadPending, persistPending, lastPersist, store,
                    timers, history, seed, lastOp, uncaught >>

\* A click on a button of the confirmation surface: resolve(JSON.stringify(...)) hands
\* the answer to the agent and calls no state setter.  The buttons carry no disabled
\* flag and the render function keeps no record of a click: the surface is there for
\* another click until the owner of the interrupt takes it away, at once or later.
resolveInterrupt(approved) ==
    /\ interrupt.shown
    /\ Len(interrupt.responses) < MaxResolves
    /\ \E surfaceStays \in BOOLEAN :
         interrupt' = [interrupt EXCEPT !.responses = Append(@, resolveArgument(approved)),
                                        !.shown = surfaceStays]
    /\ UNCHANGED << state, isHydrated, isInitialValue, nextState, nextIsHydrated,
                    stateQueued, loadPending, persistPending, lastPersist, store,
                    timers, history, seed, lastOp, uncaught >>

\* Faulty variant of clearedValue: the store is cleared, the value is left as it is.
clearedValue_storeOnly(initialValue, current) == current

\* setState(initialValue) in clearValue: the value after the reset
clearedValue(initialValue, current) == initialValue

\* handleReset -> clearValue, from the click on the Reset button: removeItem outside
\* any try block, then setState(initialValue).  The update of a click is rendered
\* before the click returns: the commit shows the initialValue object whatever
\* timer updates were queued (they are rebased under it and leave it as it is), and
\* since the button is only rendered over a non-idle state the value has changed and
\* the persist effect is due.
handleReset ==
    /\ ~loadPending
    /\ ~persistPending
    /\ ResetVisible(state)
    /\ \E removeItemThrows \in BOOLEAN :
        IF removeItemThrows
        THEN /\ uncaught' = TRUE
             /\ lastOp' = "clearValueThrew"
             /\ UNCHANGED << store, state, nextState, stateQueued, isInitialValue,
                             persistPending >>
        ELSE /\ store' = [store EXCEPT ![STORAGE_KEY] = NoDocument]
             /\ nextState' = clearedValue(initialState, nextState)
             /\ state' = clearedValue(initialState, nextState)
             /\ stateQueued' = FALSE
             /\ isInitialValue' = TRUE
             /\ persistPending' = persistEffectRuns(TRUE, FALSE)
             /\ lastOp' = "clearValue"
             /\ uncaught' = uncaught
    /\ UNCHANGED << isHydrated, nextIsHydrated, loadPending, lastPersist, timers,
                    history, seed, interrupt >>

Next ==
    \/ Load
    \/ Render
    \/ Persist
    \/ \E ev \in ContainerEvents : ToolRender(ev)
    \/ TimerFire
    \/ handleReset

Spec == Init /\ [][Next]_vars

\* Effects that are due after a commit do run, and so does a render that is due.
FairSpec == Spec /\ WF_vars(Load) /\ WF_vars(Render) /\ WF_vars(Persist)

Quiescent == ~loadPending /\ ~Pending

(***************************************************************************)
(* C1.                                                                     *)
(***************************************************************************)
\* C1: after clearValue (the user reset), once every persistence effect it
\* triggers has run, the in-memory value equals the default and the store holds
\* no document under the container's key.
C1_ClearedStoreHoldsNoDocument ==
    (lastOp = "clearValue" /\ Quiescent /\ timers = << >>)
        => (state = initialState /\ store[STORAGE_KEY] = NoDocument)

(***************************************************************************)
(* C3.                                                                     *)
(***************************************************************************)
\* C3: from the creation of the container until its load step runs, the value
\* it returns equals the default, whatever document the store holds.
C3_DefaultUntilLoad == loadPending => state = initialState

\* the load step has not run, the store holds a document that parses to a value
\* other than the default, and a tool update is already queued
C3_Witness ==
    /\ loadPending
    /\ store[STORAGE_KEY].kind = "json"
    /\ JSONparse(store[STORAGE_KEY]) # initialState
    /\ nextState # initialState

(***************************************************************************)
(* C4.                                                                     *)
(***************************************************************************)
LoadStep == loadPending /\ ~loadPending'

\* C4: when the load step finds a document that fails to read or parse, the
\* in-memory value stays as it was (the default), no error leaves the container
\* and the container still becomes hydrated; when it finds a document that
\* parses, the in-memory value becomes exactly the parsed document.
C4_LoadStep ==
    [][LoadStep =>
        /\ state' = initialState
        /\ uncaught' = uncaught
        /\ lastOp' = "loadFailed" =>
              (nextState' = nextState /\ nextIsHydrated')
        /\ lastOp' = "loadParsed" =>
              (nextState' = JSONparse(store[STORAGE_KEY]) /\ nextIsHydrated')
        /\ (lastOp' = "loadFailed" /\ timers = << >> /\ history = << >>) =>
              nextState' = initialState]_vars

\* the load step met a document that does not parse; the container was rendered
\* hydrated afterwards, with the default value, and persisted it
C4_Witness ==
    /\ lastOp = "loadFailed"
    /\ seed = initialState
    /\ isHydrated
    /\ state = initialState
    /\ lastPersist = "written"
    /\ ~uncaught

(***************************************************************************)
(* C5.                                                                     *)
(***************************************************************************)
PersistStep == persistPending /\ ~persistPending'

\* C5: once the load attempt has completed, every change of the value is
\* eventually followed by a store write of that value under the same key, so
\* that whenever no persistence effect is pending and the last write did not
\* fail the stored document is the JSON serialization of the current value; a
\* failing write leaves the in-memory value as set and raises nothing.
C5_ChangesPersisted ==
    /\ []((Quiescent /\ lastPersist # "failed")
            => store[STORAGE_KEY] = JSONstringify(state))
    /\ [][PersistStep =>
            /\ state' = state
            /\ nextState' = nextState
            /\ uncaught' = uncaught
            /\ (isHydrated /\ lastPersist' # "failed")
                  => store'[STORAGE_KEY] = JSONstringify(state)]_vars
    /\ ((~loadPending /\ Pending) ~> Quiescent)

\* a tool update made after the load has been rendered and written
C5_Witness ==
    /\ Quiescent
    /\ lastOp = "update"
    /\ lastPersist = "written"
    /\ state # initialState
    /\ store[STORAGE_KEY] = JSONstringify(state)

(***************************************************************************)
(* Payloads of the call_pharmacy events.                                   *)
(***************************************************************************)
CallArgs ==
    { [pharmacy_name |-> Str("CVS")], [pharmacy_name |-> Str("Walgreens")],
      [pharmacy_name |-> Str("Nowhere")], EmptyObj, Undef }

CallResults ==
    { CallOk,
      [available |-> Bool(FALSE)],
      [available |-> Bool(TRUE), quantity |-> Num(0), price |-> Num(0),
       transcript |-> Arr(<< >>)],
      [error |-> Bool(TRUE), message |-> Str("no answer")],
      Undef }

CallEvents ==
    { ToolEvent("call_pharmacy", "complete", a, r) : a \in CallArgs, r \in CallResults }
    \cup
    { ToolEvent("call_pharmacy", "executing", [pharmacy_name |-> Str("CVS")], Undef) }

InitCall == InitReducer({initialState, MedicineDone, MedicineFound})
NextCall == \E ev \in CallEvents : Len(history) < MaxCallEvents /\ ApplyEvent(ev)
SpecCall == InitCall /\ [][NextCall]_vars

(***************************************************************************)
(* C11.                                                                    *)
(***************************************************************************)
\* the positions of the entries of list q whose name is n
NamedAt(q, n) == {j \in DOMAIN q : Get(q[j], "name") = n}

\* field k of the stored call result: the result's value, d when it is missing
CallField(stored, result, k, d) ==
    /\ k \notin DOMAIN result => stored[k] = d
    /\ Truthy(Get(result, k)) => stored[k] = result[k]

C11_CallStep(ev) ==
    LET old == state.medicine
        new == state'.medicine
        hits == NamedAt(old.pharmacies.items, OptGet(ev.args, "pharmacy_name"))
    IN  /\ new.stage = Str("completed")
        /\ new.callResult.available = Get(ev.result, "available")
        /\ CallField(new.callResult, ev.result, "quantity", Num(0))
        /\ CallField(new.callResult, ev.result, "price", Num(0))
        /\ CallField(new.callResult, ev.result, "transcript", Arr(<< >>))
        /\ hits # {} =>
             new.selectedPharmacy
               = old.pharmacies.items[CHOOSE j \in hits : \A i \in hits : j <= i]
        /\ hits = {} => new.selectedPharmacy = old.selectedPharmacy
        /\ new.pharmacies = old.pharmacies
        /\ new.medicineName = old.medicineName
        /\ new.location = old.location

\* C11: a call_pharmacy complete event with a result sets medicine.stage = completed,
\* sets callResult to the result's available, quantity, price and transcript (quantity
\* and price 0 and transcript empty when missing), and sets selectedPharmacy to the
\* (first) entry of the current medicine.pharmacies whose name equals the call's
\* pharmacy_name when there is one; when no entry matches, selectedPharmacy keeps its
\* previous value; pharmacies, medicineName and location are unchanged.
C11_CallPharmacyComplete ==
    [][ history' # history =>
          LET ev == Last(history') IN
          (ev.status = "complete" /\ Truthy(ev.result)) => C11_CallStep(ev) ]_vars

\* a call that matched an entry, then a call to a name not in the list: the second
\* one filled the defaults and kept the selection of the first
C11_Witness ==
    /\ Len(history) = 2
    /\ seed = MedicineFound
    /\ history[1].args = [pharmacy_name |-> Str("Walgreens")]
    /\ history[1].result = CallOk
    /\ history[2].args = [pharmacy_name |-> Str("Nowhere")]
    /\ history[2].result = [available |-> Bool(FALSE)]
    /\ state.medicine.selectedPharmacy.name = Str("Walgreens")
    /\ state.medicine.callResult.quantity = Num(0)
    /\ state.medicine.stage = Str("completed")

(***************************************************************************)
(* C12.                                                                    *)
(***************************************************************************)
\* a non-empty string without leading or trailing whitespace
TrimmedNonEmpty(v) == IsString(v) /\ v.s # "" /\ Trim(v.s) = v.s

\* C12: after any update_preferences complete event, whether its interests argument
\* is a single comma-delimited string or a list, travel.preferences.interests is an
\* ordered list in which every element is a non-empty string without leading or
\* trailing whitespace; the event also sets activeTask = travel and travel.stage =
\* gathering_preferences.
C12_InterestsNormalized ==
    (history # << >> /\ Last(history).status = "complete" /\ Truthy(Last(history).args))
        => /\ state.activeTask = Str("travel")
           /\ state.travel.stage = Str("gathering_preferences")
           /\ IsArray(Get(state.travel.preferences, "interests"))
           /\ \A j \in DOMAIN state.travel.preferences.interests.items :
                 TrimmedNonEmpty(state.travel.preferences.interests.items[j])

(***************************************************************************)
(* C13.                                                                    *)
(***************************************************************************)
MedicineStages ==
    << "idle", "searching", "found_pharmacies", "checking_availability", "calling",
       "completed" >>
TravelStages ==
    << "idle", "gathering_preferences", "searching", "planning", "refining", "completed" >>

\* the position of a stage in the order of its enum
Rank(order, stage) == CHOOSE j \in DOMAIN order : order[j] = stage.s

\* C13: within one stage enum, between two explicit resets, the stage never moves to
\* an earlier value of its order under any sequence of tool events.
C13_StagesNeverMoveBack ==
    [][ history' # history =>
          /\ Rank(MedicineStages, state'.medicine.stage)
                >= Rank(MedicineStages, state.medicine.stage)
          /\ Rank(TravelStages, state'.travel.stage)
                >= Rank(TravelStages, state.travel.stage) ]_vars

(***************************************************************************)
(* The container with the frontend action and the interrupt: the events    *)
(* that write the pharmacy list and the selection, interleaved with the    *)
(* select_pharmacy handler, the interrupt buttons, the effects and Reset.  *)
(***************************************************************************)
\* the pharmacy_id arguments of the select_pharmacy action
SelectableIds == { Str("walgreens-7"), Str("pharmacy-0") }

SelectionEvents ==
    { ToolEvent("search_pharmacies", "complete", Undef, SearchOk(<< PharmacyBare >>)),
      ToolEvent("call_pharmacy", "complete", [pharmacy_name |-> Str("CVS")], CallOk) }

SelectionDocuments ==
    { NoDocument, JSONstringify(initialState), JSONstringify(MedicineFound) }

\* the interrupt the agent raises before it calls call_pharmacy
SelectionInterrupts ==
    { [action |-> Str("confirm_pharmacy_call"), pharmacy_name |-> Str("CVS"),
       medicine_name |-> Str("paracetamol")] }

InitSelect == InitContainer(SelectionDocuments)

NextSelect ==
    \/ Load
    \/ Render
    \/ Persist
    \/ \E ev \in SelectionEvents : ToolRender(ev)
    \/ TimerFire
    \/ \E pharmacy_id \in SelectableIds : select_pharmacy(pharmacy_id)
    \/ \E eventValue \in SelectionInterrupts : offerInterrupt(eventValue)
    \/ resolveInterrupt(TRUE)
    \/ handleReset

SpecSelect == InitSelect /\ [][NextSelect]_vars

(***************************************************************************)
(* C14.                                                                    *)
(***************************************************************************)
\* the step is the explicit full-state clear
ClearStep == lastOp' = "clearValue" /\ state' = initialState /\ isInitialValue'

\* C14: once activeTask has left none, no tool event, frontend action, interrupt
\* resolution or hydration load sets it back to none; only the explicit full-state
\* clear does.  (Stated for the value the page renders, and for the value the update
\* queue holds under every step but the load, which runs once, while the page still
\* renders the default.)
C14_ActiveTaskLeavesNoneForGood ==
    [][ /\ (state.activeTask # Str("none") /\ state'.activeTask = Str("none"))
            => ClearStep
        /\ (nextState.activeTask # Str("none") /\ nextState'.activeTask = Str("none"))
            => (ClearStep \/ LoadStep) ]_vars

\* the load has set activeTask = medicine; an interrupt answer and a rendered
\* select_pharmacy update have left it in place
C14_Witness ==
    /\ lastOp = "select_pharmacy"
    /\ interrupt.responses # << >>
    /\ state.activeTask = Str("medicine")
    /\ nextState.activeTask = Str("medicine")
    /\ store[STORAGE_KEY] # NoDocument
    /\ ~stateQueued

(***************************************************************************)
(* C15.                                                                    *)
(***************************************************************************)
\* C15: in every reachable state, if the medicine or the travel sub-state differs
\* from its default then activeTask is not none (the first tool event that changes
\* a sub-state also sets activeTask).
C15_ActiveTaskSetWithSubState ==
    (seed = initialState
       /\ (state.medicine # initialState.medicine \/ state.travel # initialState.travel))
        => state.activeTask # Str("none")

(***************************************************************************)
(* C16.                                                                    *)
(***************************************************************************)
\* the ids of the entries of a pharmacy list
IdsOf(pharmacies) == {Get(pharmacies.items[j], "id") : j \in DOMAIN pharmacies.items}

\* the step is a select_pharmacy handler that found its pharmacy and queued the
\* assignment
SelectAssigns ==
    /\ history' # history
    /\ Last(history').name = "select_pharmacy"
    /\ Truthy(Find(state.medicine.pharmacies, "id", Last(history').args.pharmacy_id))

\* the step is the timer callback of a call_pharmacy event that found its pharmacy
CallAssigns ==
    /\ timers # << >>
    /\ timers' = Tail(timers)
    /\ history' = history
    /\ Head(timers).fn = "call_pharmacy_complete"
    /\ Truthy(Find(nextState.medicine.pharmacies, "name",
                   OptGet(Head(timers).args, "pharmacy_name")))

\* C16: every assignment of medicine.selectedPharmacy, by call_pharmacy or by the
\* select_pharmacy action, assigns a pharmacy whose id is the id of an entry of
\* medicine.pharmacies in the state the assignment is applied to, in every
\* interleaving of action handlers with deferred tool-event updates.
C16_SelectedIsListedWhenAssigned ==
    [][ (SelectAssigns \/ CallAssigns) =>
          nextState'.medicine.selectedPharmacy.id \in IdsOf(nextState.medicine.pharmacies)
      ]_vars

(***************************************************************************)
(* C17.                                                                    *)
(***************************************************************************)
\* the entries of list q have pairwise distinct ids
DistinctIds(q) ==
    \A i, j \in DOMAIN q : i # j => Get(q[i], "id") # Get(q[j], "id")

\* C17: in every reachable state, the ids of the entries of medicine.pharmacies are
\* pairwise distinct and, within each day of travel.itinerary, the ids of its
\* activities are pairwise distinct, for every tool result including results that
\* supply ids for some entries and omit them for others.
C17_IdsUnique ==
    /\ DistinctIds(state.medicine.pharmacies.items)
    /\ \A k \in DOMAIN state.travel.itinerary.items :
          DistinctIds(ActivitiesOf(state.travel.itinerary.items[k]))

(***************************************************************************)
(* C18.                                                                    *)
(***************************************************************************)
MedicineTools == {"search_pharmacies", "check_availability", "call_pharmacy"}
TravelTools == {"update_preferences", "generate_itinerary", "modify_itinerary"}

\* the event schedules an update of a tool whose updates write activeTask
WritesActiveTask(ev) ==
    /\ ev.name \in {"search_pharmacies", "update_preferences", "generate_itinerary"}
    /\ Scheduled(ev) # << >>

ReportsFailure(ev) ==
    /\ ev.status = "complete"
    /\ IsObject(ev.result)
    /\ Truthy(Get(ev.result, "error"))

\* C19: a complete event whose result reports a failure leaves the stage of its
\* domain at its current value, for each of search_pharmacies, check_availability,
\* call_pharmacy, generate_itinerary and modify_itinerary; for search_pharmacies it
\* also leaves medicine.pharmacies unchanged.
C19_FailureKeepsStage ==
    [][ (history' # history /\ ReportsFailure(Last(history'))) =>
          LET ev == Last(history') IN
          /\ ev.name \in MedicineTools => state'.medicine.stage = state.medicine.stage
          /\ ev.name \in TravelTools => state'.travel.stage = state.travel.stage
          /\ ev.name = "search_pharmacies"
                => state'.medicine.pharmacies = state.medicine.pharmacies ]_vars

(***************************************************************************)
(* C20.                                                                    *)
(***************************************************************************)
\* the step is the render pass of a tool call
RenderPass ==
    /\ history' # history
    /\ Last(history').name \in MedicineTools \cup TravelTools

\* C20: no tool-call render pass changes UnifiedState while it runs: each state
\* update a render pass triggers is applied in a later turn of the event loop (it is
\* appended to the pending timer callbacks), so the state read at the start of a
\* render pass equals the state at its end.
C20_RenderPassDefersUpdates ==
    [][ RenderPass =>
          /\ state' = state
          /\ nextState' = nextState
          /\ stateQueued' = stateQueued
          /\ timers' = timers \o Scheduled(Last(history')) ]_vars

\* a render pass over a loaded, rendered state has just scheduled an update that
\* would change it, and the state is as it was
C20_Witness ==
    /\ history # << >>
    /\ timers = Scheduled(Last(history))
    /\ timers # << >>
    /\ ~stateQueued
    /\ isHydrated
    /\ state = nextState
    /\ state # initialState
    /\ ApplyUpdater(Head(timers), nextState) # nextState

(***************************************************************************)
(* The container with the call-confirmation interrupt: interrupt events of *)
(* the agent and clicks on the two buttons, interleaved with a tool event, *)
(* the effects and the renders.                                            *)
(***************************************************************************)
ConfirmCall ==
    [action |-> Str("confirm_pharmacy_call"), pharmacy_name |-> Str("CVS"),
     medicine_name |-> Str("paracetamol"), quantity_needed |-> Num(2)]

\* the values of the interrupt events the agent can raise
InterruptValues ==
    { ConfirmCall,
      [action |-> Str("confirm_pharmacy_call")],
      [action |-> Str("confirm_booking"), description |-> Str("Book the hotel?")],
      [pharmacy_name |-> Str("CVS")],
      Undef }

InterruptEvents ==
    { ToolEvent("call_pharmacy", "complete", [pharmacy_name |-> Str("CVS")], CallOk) }

InterruptDocuments == { NoDocument, JSONstringify(MedicineFound) }

InitInterrupt == InitContainer(InterruptDocuments)

NextInterrupt ==
    \/ Load
    \/ Render
    \/ Persist
    \/ \E ev \in InterruptEvents : ToolRender(ev)
    \/ TimerFire
    \/ \E eventValue \in InterruptValues : offerInterrupt(eventValue)
    \/ \E approved \in BOOLEAN : resolveInterrupt(approved)

SpecInterrupt == InitInterrupt /\ [][NextInterrupt]_vars

(***************************************************************************)
(* C21.                                                                    *)
(***************************************************************************)
\* C21: for each offered confirm_pharmacy_call interrupt, the resolution callback is
\* invoked at most once over any sequence of clicks on the two buttons.
C21_ResolvedAtMostOnce ==
    Len(interrupt.responses) <= 1

(***************************************************************************)
(* C22.                                                                    *)
(***************************************************************************)
\* the value of the event names the call confirmation
NamesCallConfirmation(v) ==
    /\ IsObject(v)
    /\ "action" \in DOMAIN v
    /\ v.action = Str("confirm_pharmacy_call")

\* the step offers an interrupt or resolves one
InterruptStep == interrupt' # interrupt

\* C22: the confirmation surface is offered exactly for the interrupt events whose
\* action is confirm_pharmacy_call; every resolution sent is the JSON text of
\* {approved: true} or of {declined: true}; and offering or resolving an interrupt
\* leaves UnifiedState (rendered and queued, medicine.stage with it) and the store
\* unchanged.
C22_InterruptResolver ==
    [][ InterruptStep =>
          /\ interrupt'.responses = << >> =>
                interrupt'.shown = NamesCallConfirmation(interrupt'.value)
          /\ interrupt'.responses # << >> =>
                /\ interrupt.shown
                /\ NamesCallConfirmation(interrupt.value)
                /\ interrupt'.value = interrupt.value
                /\ \E doc \in { [kind |-> "json", json |-> [approved |-> Bool(TRUE)]],
                                [kind |-> "json", json |-> [declined |-> Bool(TRUE)]] } :
                      interrupt'.responses = Append(interrupt.responses, doc)
          /\ state' = state
          /\ nextState' = nextState
          /\ stateQueued' = stateQueued
          /\ timers' = timers
          /\ store' = store ]_vars

\* a declined call confirmation over a loaded medicine state that is not idle, after
\* an event of another action was refused
C22_Witness ==
    /\ interrupt.value = ConfirmCall
    /\ interrupt.responses = << [kind |-> "json", json |-> [declined |-> Bool(TRUE)]] >>
    /\ isHydrated
    /\ state.medicine.stage = Str("completed")
    /\ state.medicine.callResult # Null

(***************************************************************************)
(* C23.  The suggestion hint of the page.                                  *)
(***************************************************************************)
\* useState<BackendAgentState>({...}): the page never calls setAgentState, so every
\* render reads this value
agentState ==
    [progress |-> Arr(<< >>),
     travel_preferences |-> EmptyObj,
     current_itinerary |-> Arr(<< >>),
     medicine_context |-> EmptyObj,
     pharmacy_results |-> Arr(<< >>),
     selected_pharmacy |-> Undef,
     user_preferences |-> EmptyObj]

\* a?.length
OptLength(a) == IF IsNullish(a) THEN Undef ELSE Num(Len(a.items))

\* The body of the useMemo of suggestionContext: the template that is returned and
\* the values interpolated into it.
suggestionContext(agent) ==
    IF OptGet(agent, "task_type") = Str("medicine")
    THEN LET pharmacyCount == Or(OptLength(Get(agent, "pharmacy_results")), Num(0))
             hasMedicine == OptGet(Get(agent, "medicine_context"), "medicine_name")
         IN  IF pharmacyCount.n > 0
             THEN [template |-> "User found N pharmacies for M",
                   values |-> << pharmacyCount, hasMedicine >>]
             ELSE [template |-> "User is looking for medicine", values |-> << >>]
    ELSE IF OptGet(agent, "task_type") = Str("travel")
    THEN LET hasItinerary ==
                 Or(OptLength(Get(agent, "current_itinerary")), Num(0)).n > 0
             dest == OptGet(Get(agent, "travel_preferences"), "destination")
         IN  IF hasItinerary
             THEN [template |-> "User has N-day itinerary for D",
                   values |-> << OptLength(Get(agent, "current_itinerary")), dest >>]
             ELSE IF Truthy(dest)
                  THEN [template |-> "User planning trip to D", values |-> << dest >>]
                  ELSE [template |-> "User wants to plan travel", values |-> << >>]
    ELSE [template |-> "User just started", values |-> << >>]

\* C23: the suggestion hint is a function of the current UnifiedState and follows its
\* changes: medicine with a non-empty pharmacies list gives the medicine-with-results
\* hint with the pharmacy count and the medicine name, medicine without pharmacies the
\* medicine-in-progress hint, travel with a non-empty itinerary the
\* travel-with-itinerary hint, travel without itinerary a travel-in-progress hint,
\* and the generic greeting is given only when no task is active.
C23_HintFollowsState ==
    LET hint == suggestionContext(agentState)
        pharmacies == state.medicine.pharmacies.items
        itinerary == state.travel.itinerary.items
    IN  /\ state.activeTask = Str("medicine") /\ pharmacies # << >> =>
              hint = [template |-> "User found N pharmacies for M",
                      values |-> << Num(Len(pharmacies)), state.medicine.medicineName >>]
        /\ state.activeTask = Str("medicine") /\ pharmacies = << >> =>
              hint.template = "User is looking for medicine"
        /\ state.activeTask = Str("travel") /\ itinerary # << >> =>
              hint.template = "User has N-day itinerary for D"
        /\ state.activeTask = Str("travel") /\ itinerary = << >> =>
              hint.template \in { "User planning trip to D", "User wants to plan travel" }
        /\ hint.template = "User just started" => state.activeTask = Str("none")

(***************************************************************************)
(* C24.                                                                    *)
(***************************************************************************)
\* C24: no operation of the container ends in an uncaught error: the load step, the
\* persist step, clearValue and the application of the tool events all terminate
\* normally, also when the store is unavailable or holds an unparseable document.
C24_NothingThrown ==
    ~uncaught

(***************************************************************************)
(* The life cycle of one tool call: its complete event, rendered with or   *)
(* without the pending event of the same call before it.                   *)
(***************************************************************************)
SearchArgs == [medicine_name |-> Str("paracetamol"), location |-> Str("SF")]

\* complete events of the six tools
LifecycleEvents ==
    { ToolEvent("search_pharmacies", "complete", SearchArgs,
                SearchOk(<< PharmacyBare, PharmacyFull >>)),
      ToolEvent("search_pharmacies", "complete", [location |-> Str("NYC")],
                SearchOk(<< >>)),
      ToolEvent("search_pharmacies", "complete", SearchArgs,
                [success |-> Bool(FALSE), message |-> Str("search failed")]),
      ToolEvent("search_pharmacies", "complete", SearchArgs, Undef),
      ToolEvent("check_availability", "complete", [pharmacy_name |-> Str("CVS")],
                [in_stock |-> Bool(TRUE), price_per_unit |-> Num(4)]),
      ToolEvent("call_pharmacy", "complete", [pharmacy_name |-> Str("CVS")], CallOk),
      ToolEvent("update_preferences", "complete",
                [destination |-> Str("Bali"), interests |-> Str("food, culture")], Undef),
      ToolEvent("generate_itinerary", "complete", [destination |-> Str("Bali")],
                [success |-> Bool(TRUE), itinerary |-> TwoDays]),
      ToolEvent("generate_itinerary", "complete", [destination |-> Str("Bali")],
                [success |-> Bool(TRUE), itinerary |-> Arr(<< DayBare >>),
                 total_cost |-> Num(120)]),
      ToolEvent("generate_itinerary", "complete", [destination |-> Str("Bali")],
                [success |-> Bool(FALSE), message |-> Str("planning failed")]),
      ToolEvent("modify_itinerary", "complete", [day |-> Num(1)],
                [itinerary |-> ModifiedDays, total_estimated_cost |-> Num(40)]) }

\* the event of the same call (same name, same args) before its result is there
PendingOf(ev) == ToolEvent(ev.name, "executing", ev.args, Undef)

InitLifecycle == InitReducer({initialState, MedicineDone, MedicineFound, TravelPlanning})

NextLifecycle ==
    \E ev \in LifecycleEvents :
        \/ history = << >> /\ ApplyEvent(PendingOf(ev))
        \/ history \in { << >>, << PendingOf(ev) >> } /\ ApplyEvent(ev)

SpecLifecycle == InitLifecycle /\ [][NextLifecycle]_vars

(***************************************************************************)
(* C25.                                                                    *)
(***************************************************************************)
\* the pending event of a call and then its complete event have been applied
PendingThenComplete ==
    /\ Len(history) = 2
    /\ history[2].status = "complete"
    /\ history[1] = PendingOf(history[2])

\* C25 as stated: for every tool and every state, applying a complete event without
\* a prior pending event yields the same UnifiedState as applying the pending event
\* of the same call and then the complete event.
C25_CompleteAloneEqualsPendingThenComplete ==
    PendingThenComplete => state = Reduce(history[2], seed)

\* C25, amended: the two agree for every complete event that schedules an update (for
\* search_pharmacies and generate_itinerary: a result with success and a list); a
\* complete event that schedules none leaves what the pending event wrote.
C25_AppliedCompleteIgnoresPending ==
    PendingThenComplete =>
        IF Scheduled(history[2]) # << >>
        THEN state = Reduce(history[2], seed)
        ELSE state = Reduce(history[1], seed) /\ Reduce(history[2], seed) = seed

\* a successful search over the default state, after a pending event that changed it
C25_Witness ==
    /\ PendingThenComplete
    /\ seed = initialState
    /\ history[2].name = "search_pharmacies"
    /\ Scheduled(history[2]) # << >>
    /\ Reduce(history[1], seed) # seed
    /\ state.medicine.stage = Str("found_pharmacies")
    /\ state.medicine.medicineName = Str("paracetamol")

(***************************************************************************)
(* C26.                                                                    *)
(***************************************************************************)
\* C26: the store is never written under the container's key before the load attempt
\* of the container has completed: the effects of the mount leave the store as it is,
\* and every later write (setItem of the persist effect, removeItem of clearValue)
\* happens after the load step, from a render that is hydrated; so a document stored
\* by an earlier session is never replaced by the default before it has been read.
C26_NoWriteBeforeLoad ==
    [][ /\ LoadStep => (store' = store /\ lastPersist' = "skipped")
        /\ store' # store => (~loadPending /\ isHydrated)
        /\ (PersistStep /\ lastPersist' = "written") => (~loadPending /\ isHydrated)
      ]_vars

\* the document of an earlier session was read, rendered and written back as it was
C26_Witness ==
    /\ lastOp = "loadParsed"
    /\ isHydrated
    /\ state = MedicineDone
    /\ lastPersist = "written"
    /\ store[STORAGE_KEY] = JSONstringify(MedicineDone)

(***************************************************************************)
(* C27.                                                                    *)
(***************************************************************************)
\* the step applies a check_availability complete event that has a result and a
\* pharmacy_name
C27_CheckStep(ev) ==
    /\ history' = Append(history, ev)
    /\ ev.name = "check_availability"
    /\ ev.status = "complete"
    /\ Truthy(ev.result)
    /\ Truthy(OptGet(ev.args, "pharmacy_name"))

\* C27: a check_availability complete event with a result and a pharmacy_name sets
\* medicine.stage = checking_availability and changes only hasStock and price of the
\* single (first) entry of medicine.pharmacies with that name: the length, order and
\* ids of the list, every other field of that entry, every other entry,
\* selectedPharmacy, callResult and activeTask are unchanged.
C27_PatchesOneEntry ==
    [][ \A ev \in LifecycleEvents : C27_CheckStep(ev) =>
          LET old == state.medicine.pharmacies.items
              new == state'.medicine.pharmacies.items
              hits == NamedAt(old, ev.args.pharmacy_name)
          IN  /\ state'.medicine.stage = Str("checking_availability")
              /\ Len(new) = Len(old)
              /\ \A j \in DOMAIN old :
                    IF hits # {} /\ j = CHOOSE h \in hits : \A i \in hits : h <= i
                    THEN SameOtherFields(new[j], old[j], {"hasStock", "price"})
                    ELSE new[j] = old[j]
              /\ state'.medicine.selectedPharmacy = state.medicine.selectedPharmacy
              /\ state'.medicine.callResult = state.medicine.callResult
              /\ state'.activeTask = state.activeTask
              /\ state'.travel = state.travel ]_vars

(***************************************************************************)
(* C28.                                                                    *)
(***************************************************************************)
\* C28: after a successful generate_itinerary complete event, every activity of every
\* day of travel.itinerary has a type in {attraction, food, transport, accommodation,
\* activity}: a missing or unrecognized type in the result becomes activity.
C28_ActivityTypesKnown ==
    (history # << >> /\ SuccessWithItinerary(Last(history))) =>
        \A d \in DOMAIN state.travel.itinerary.items :
            LET acts == state.travel.itinerary.items[d].activities.items IN
            \A a \in DOMAIN acts :
                acts[a].type \in { Str("attraction"), Str("food"), Str("transport"),
                                   Str("accommodation"), Str("activity") }

(***************************************************************************)
(* C29.                                                                    *)
(***************************************************************************)
\* C29: after a successful generate_itinerary complete event, travel.totalCost equals
\* the total supplied by the result whenever the result supplies one (for every
\* supplied value, 0 included), and otherwise equals the sum of the normalized costs
\* of all activities of all days.
C29_TotalCost ==
    (history # << >> /\ SuccessWithItinerary(Last(history))) =>
        LET result == Last(history).result IN
        IF "total_cost" \in DOMAIN result
        THEN state.travel.totalCost = result.total_cost
        ELSE state.travel.totalCost = sumOfCosts(state.travel.itinerary)

(***************************************************************************)
(* C30.                                                                    *)
(***************************************************************************)
\* the step applies a modify_itinerary complete event
C30_ModifyStep(ev) ==
    /\ history' = Append(history, ev)
    /\ ev.name = "modify_itinerary"
    /\ ev.status = "complete"

\* C30: a modify_itinerary complete event whose result carries an itinerary replaces
\* travel.itinerary by it and travel.totalCost by the total of the result (a result
\* without a total keeps the total), and leaves travel.stage, travel.progress,
\* travel.preferences, activeTask and the medicine sub-state unchanged; an event
\* without an itinerary in its result changes nothing.
C30_ModifyReplaces ==
    [][ \A ev \in TravelEvents : C30_ModifyStep(ev) =>
          IF ~IsNullish(ev.result) /\ "itinerary" \in DOMAIN ev.result
          THEN /\ state'.travel.itinerary = ev.result.itinerary
               /\ IF "total_estimated_cost" \in DOMAIN ev.result
                  THEN state'.travel.totalCost = ev.result.total_estimated_cost
                  ELSE state'.travel.totalCost = state.travel.totalCost
               /\ state'.travel.stage = state.travel.stage
               /\ state'.travel.progress = state.travel.progress
               /\ state'.travel.preferences = state.travel.preferences
               /\ state'.activeTask = state.activeTask
               /\ state'.medicine = state.medicine
          ELSE state' = state ]_vars

(***************************************************************************)
(* C31.                                                                    *)
(***************************************************************************)
\* C31: while travel.stage = planning, travel.progress never decreases from one state
\* to the next under any sequence of tool events; a generate_itinerary pending event
\* sets stage = planning with progress = 50 and a successful complete event sets
\* stage = completed with progress = 100.
C31_ProgressWhilePlanning ==
    [][ \A ev \in ToolEvents : history' = Append(history, ev) =>
          /\ state.travel.stage = Str("planning") =>
                state'.travel.progress.n >= state.travel.progress.n
          /\ (ev.name = "generate_itinerary" /\ ev.status # "complete") =>
                /\ state'.travel.stage = Str("planning")
                /\ state'.travel.progress = Num(50)
          /\ (ev.name = "generate_itinerary" /\ SuccessWithItinerary(ev)) =>
                /\ state'.travel.stage = Str("completed")
                /\ state'.travel.progress = Num(100) ]_vars

\* a pending event met the planning stage and a successful complete event followed
C31_Witness ==
    /\ seed = TravelPlanning
    /\ Len(history) = 2
    /\ history[1].name = "generate_itinerary" /\ history[1].status # "complete"
    /\ SuccessWithItinerary(history[2])
    /\ state.travel.progress = Num(100)

(***************************************************************************)
(* C32.                                                                    *)
(***************************************************************************)
\* C32: deferred state updates are applied one at a time in the order in which they
\* were scheduled, each to the state left by the one before: a timer step applies the
\* oldest callback to the queued state and leaves the later ones scheduled, and a
\* render pass puts its updates behind those already scheduled; so when tool events
\* schedule updates before any of them runs, the final state is the sequential
\* application of all of them and no update is lost.
C32_UpdatesAppliedInOrder ==
    [][ /\ Len(timers') < Len(timers) =>
              /\ timers' = Tail(timers)
              /\ nextState' = ApplyUpdater(Head(timers), nextState)
              /\ ApplyAll(timers', nextState') = ApplyAll(timers, nextState)
        /\ RenderPass =>
              ApplyAll(timers', nextState')
                = Reduce(Last(history'), ApplyAll(timers, nextState)) ]_vars

\* the updates of two tool events ran after both had been scheduled, over a rendered
\* state that shows neither: the queue holds the effect of both
C32_Witness ==
    /\ Len(history) = 2
    /\ store[STORAGE_KEY] = NoDocument
    /\ ~loadPending
    /\ timers = << >>
    /\ state = initialState
    /\ nextState = Reduce(history[2], Reduce(history[1], initialState))
    /\ nextState # Reduce(history[2], initialState)
    /\ nextState # Reduce(history[1], initialState)

(***************************************************************************)
(* C33.                                                                    *)
(***************************************************************************)
\* C33: a search_pharmacies event, also one that replaces medicine.pharmacies, leaves
\* medicine.selectedPharmacy and medicine.callResult unchanged (so the selection may
\* afterwards name an id that is no longer in the list); likewise a
\* check_availability event leaves selectedPharmacy and callResult unchanged when it
\* patches the list entry with the same id.
C33_SelectionKept ==
    [][ (history' # history
         /\ Last(history').name \in {"search_pharmacies", "check_availability"}) =>
          /\ state'.medicine.selectedPharmacy = state.medicine.selectedPharmacy
          /\ state'.medicine.callResult = state.medicine.callResult ]_vars

\* a search replaced the list and the selection made before names an id that is not
\* in the new list
C33_Witness ==
    /\ history # << >>
    /\ Last(history).name = "search_pharmacies"
    /\ Scheduled(Last(history)) # << >>
    /\ state.medicine.pharmacies # seed.medicine.pharmacies
    /\ state.medicine.selectedPharmacy # Null
    /\ state.medicine.selectedPharmacy.id \notin IdsOf(state.medicine.pharmacies)
    /\ state.medicine.callResult # Null

(***************************************************************************)
(* C34.                                                                    *)
(***************************************************************************)
\* the step is a call of the select_pharmacy handler
C34_SelectStep == history' # history /\ Last(history').name = "select_pharmacy"

\* the handler changed selectedPharmacy to the listed pharmacy with the id, and
\* nothing else, or changed nothing when the id is not listed
C34_SelectsListed ==
    LET id == Last(history').args.pharmacy_id
        hits == {j \in DOMAIN state.medicine.pharmacies.items :
                    state.medicine.pharmacies.items[j].id = id}
    IN  /\ hits # {} =>
              \E j \in hits :
                 nextState' = [nextState EXCEPT !.medicine.selectedPharmacy =
                                                   state.medicine.pharmacies.items[j]]
        /\ hits = {} => (nextState' = nextState /\ stateQueued' = stateQueued)
        /\ state' = state

\* C34: the select_pharmacy action sets medicine.selectedPharmacy to the pharmacy with
\* the given id and changes nothing else when that id is in the pharmacies list,
\* leaves UnifiedState unchanged when it is not, and reports success = true in its
\* acknowledgment only when a pharmacy was selected.
C34_SelectPharmacy ==
    [][ C34_SelectStep =>
          /\ C34_SelectsListed
          /\ Last(history').result.success = Bool(TRUE) =>
                Last(history').args.pharmacy_id \in IdsOf(state.medicine.pharmacies)
      ]_vars

(***************************************************************************)
(* The frontend actions export_itinerary and save_to_favorites, called by  *)
(* the agent between tool events.  The handlers read the rendered state;   *)
(* each call is recorded with the value it returned and, for an export,    *)
(* the file it offered for download.                                       *)
(***************************************************************************)
FAVORITES_KEY == "pokus_favorites"

\* exportItinerary: the text file; day.activities.map and a.cost.toFixed(0) throw a
\* TypeError when a day has no activities list or an activity has no numeric cost
exportItineraryThrows(itinerary) ==
    \E d \in DOMAIN itinerary.items :
        LET day == itinerary.items[d] IN
        \/ ~IsArray(Get(day, "activities"))
        \/ \E a \in DOMAIN day.activities.items :
              LET cost == Get(day.activities.items[a], "cost") IN
              IsObject(cost) \/ cost.jstype # "number"

\* the handler of the export_itinerary action
export_itinerary(format) ==
    LET itinerary == state.travel.itinerary
        stem == Template(Or(Get(state.travel.preferences, "destination"), Str("travel")))
        call(result, file) ==
            [name |-> "export_itinerary", status |-> "complete",
             args |-> [format |-> format], result |-> result, file |-> file]
    IN  /\ Len(history) < MaxActionEvents
        /\ IF Len(itinerary.items) = 0
           THEN /\ history' = Append(history,
                      call([success |-> Bool(FALSE),
                            message |-> Str("No itinerary to export")], Undef))
                /\ UNCHANGED << uncaught, lastOp >>
           ELSE IF format = Str("json")
           THEN /\ history' = Append(history,
                      call([success |-> Bool(TRUE), message |-> Str("Itinerary exported!")],
                           [download |-> stem \o "-itinerary.json",
                            content |-> JSONstringify(itinerary)]))
                /\ UNCHANGED << uncaught, lastOp >>
           ELSE IF exportItineraryThrows(itinerary)
           THEN /\ history' = Append(history, call(Undef, Undef))
                /\ uncaught' = TRUE
                /\ lastOp' = "exportItineraryThrew"
           ELSE /\ history' = Append(history,
                      call([success |-> Bool(TRUE), message |-> Str("Itinerary exported!")],
                           [download |-> stem \o "-itinerary.txt",
                            content |-> itinerary]))
                /\ UNCHANGED << uncaught, lastOp >>
        /\ UNCHANGED << state, isHydrated, isInitialValue, nextState, nextIsHydrated,
                        stateQueued, loadPending, persistPending, lastPersist, store,
                        timers, seed, interrupt >>

\* the handler of the save_to_favorites action: JSON.parse(getItem(...) || '[]'),
\* push, setItem, with no try block around them
save_to_favorites(type, name, details, savedAt) ==
    LET stored == store[FAVORITES_KEY]
        entry == [type |-> type, name |-> name, details |-> details, savedAt |-> savedAt]
        call(result) ==
            [name |-> "save_to_favorites", status |-> "complete",
             args |-> [type |-> type, name |-> name, details |-> details],
             result |-> result]
    IN  /\ Len(history) < MaxActionEvents
        /\ \E storeThrows \in BOOLEAN :
             IF storeThrows \/ stored.kind = "corrupt"
                \/ (stored.kind = "json" /\ ~IsArray(JSONparse(stored)))
             THEN /\ history' = Append(history, call(Undef))
                  /\ uncaught' = TRUE
                  /\ lastOp' = "saveToFavoritesThrew"
                  /\ store' = store
             ELSE LET favorites == IF stored.kind = "json" THEN JSONparse(stored).items
                                   ELSE << >>
                  IN  /\ store' = [store EXCEPT ![FAVORITES_KEY] =
                                      JSONstringify(Arr(Append(favorites, entry)))]
                      /\ history' = Append(history,
                            call([success |-> Bool(TRUE),
                                  message |-> Str("Saved " \o Template(name)
                                                    \o " to favorites!")]))
                      /\ UNCHANGED << uncaught, lastOp >>
        /\ UNCHANGED << state, isHydrated, isInitialValue, nextState, nextIsHydrated,
                        stateQueued, loadPending, persistPending, lastPersist,
                        timers, seed, interrupt >>

\* what the favorites key can hold when the page is opened
FavoritesDocuments ==
    { NoDocument, EmptyText, CorruptText,
      JSONstringify(Arr(<< >>)),
      JSONstringify(Arr(<< [type |-> Str("destination"), name |-> Str("Bali"),
                            details |-> Str("beach"),
                            savedAt |-> Str("2025-01-01T00:00:00.000Z")] >>)),
      JSONstringify(EmptyObj) }

\* tool events between the calls: an itinerary is generated, then modified by a
\* result whose activity carries no cost
ActionEvents ==
    { ToolEvent("generate_itinerary", "complete", Undef,
                [success |-> Bool(TRUE), itinerary |-> TwoDays]),
      ToolEvent("modify_itinerary", "complete", [day |-> Num(1)],
                [itinerary |-> Arr(<< [day |-> Num(1), theme |-> Str("Sea"),
                                       activities |-> Arr(<< [title |-> Str("Swim")] >>)] >>)]) }

InitActions ==
    /\ state \in {initialState, TravelPlanning}
    /\ store \in { [k \in {STORAGE_KEY, FAVORITES_KEY} |->
                      IF k = FAVORITES_KEY THEN d ELSE JSONstringify(state)] :
                   d \in FavoritesDocuments }
    /\ isHydrated = TRUE
    /\ isInitialValue = FALSE
    /\ nextState = state
    /\ nextIsHydrated = TRUE
    /\ stateQueued = FALSE
    /\ loadPending = FALSE
    /\ persistPending = FALSE
    /\ lastPersist = "written"
    /\ timers = << >>
    /\ history = << >>
    /\ seed = state
    /\ lastOp = "none"
    /\ uncaught = FALSE
    /\ interrupt = NoInterrupt

\* a tool event, applied, rendered and persisted before the next call
ApplyAndPersist(ev) ==
    /\ Len(history) < MaxActionEvents
    /\ state' = Reduce(ev, state)
    /\ nextState' = state'
    /\ store' = [store EXCEPT ![STORAGE_KEY] = persistedDocument(state')]
    /\ history' = Append(history, ev)
    /\ UNCHANGED << isHydrated, isInitialValue, nextIsHydrated, stateQueued,
                    loadPending, persistPending, lastPersist, timers,
                    seed, lastOp, uncaught, interrupt >>

NextActions ==
    \/ \E ev \in ActionEvents : ApplyAndPersist(ev)
    \/ \E format \in { Str("json"), Str("text") } : export_itinerary(format)
    \/ save_to_favorites(Str("pharmacy"), Str("CVS"), Str("123 Main"),
                         Str("2025-02-02T10:00:00.000Z"))

SpecActions == InitActions /\ [][NextActions]_vars

(***************************************************************************)
(* C35.                                                                    *)
(***************************************************************************)
\* the entries of a favorites document
FavoritesOf(doc) ==
    IF doc.kind = "json" /\ IsArray(doc.json) THEN doc.json.items ELSE << >>

\* C35: the export_itinerary and save_to_favorites actions never change UnifiedState
\* or its persisted document; export_itinerary returns success = false and produces
\* no file when travel.itinerary is empty and success = true otherwise; each
\* save_to_favorites call appends exactly one entry at the end of the favorites
\* document and keeps all earlier entries in order.
C35_ActionsLeaveState ==
    [][ (history' # history
         /\ Last(history').name \in {"export_itinerary", "save_to_favorites"}) =>
          LET call == Last(history')
              old == FavoritesOf(store[FAVORITES_KEY])
              new == FavoritesOf(store'[FAVORITES_KEY])
          IN  /\ state' = state
              /\ nextState' = nextState
              /\ store'[STORAGE_KEY] = store[STORAGE_KEY]
              /\ call.name = "export_itinerary" =>
                    IF state.travel.itinerary.items = << >>
                    THEN OptGet(call.result, "success") = Bool(FALSE) /\ call.file = Undef
                    ELSE OptGet(call.result, "success") = Bool(TRUE) /\ call.file # Undef
              /\ call.name = "save_to_favorites" =>
                    /\ store'[FAVORITES_KEY].kind = "json"
                    /\ Len(new) = Len(old) + 1
                    /\ SubSeq(new, 1, Len(old)) = old ]_vars

(***************************************************************************)
(* C36.                                                                    *)
(***************************************************************************)
\* a state update was applied to the container and its load step has not run yet
UpdatedBeforeLoad == loadPending /\ stateQueued /\ lastOp = "update"

\* C36: if a state update is applied to the container before its load step has run,
\* then when the load step finds a document that parses the in-memory value becomes
\* exactly that document and the earlier update is discarded, and when it finds none
\* the update is kept; it is then rendered and, once the persist effect of that
\* render has written, it is the document in the store.
C36_UpdateBeforeLoad ==
    /\ [][ (UpdatedBeforeLoad /\ LoadStep) =>
             /\ lastOp' = "loadParsed" =>
                   (nextState' = JSONparse(store[STORAGE_KEY]) /\ store' = store)
             /\ lastOp' # "loadParsed" =>
                   (nextState' = nextState /\ stateQueued' /\ nextIsHydrated') ]_vars
    /\ []((lastOp \in {"loadNothing", "loadFailed"} /\ Quiescent
            /\ lastPersist = "written")
           => (state = nextState /\ store[STORAGE_KEY] = JSONstringify(state)))

\* an update made before the load step was kept by a load that found no document,
\* rendered and written to the store
C36_Witness ==
    /\ lastOp = "loadNothing"
    /\ Quiescent
    /\ timers = << >>
    /\ state # initialState
    /\ lastPersist = "written"
    /\ store[STORAGE_KEY] = JSONstringify(state)

(***************************************************************************)
(* C37.                                                                    *)
(***************************************************************************)
\* C37: a deferred tool-event update that was scheduled before a user reset and runs
\* after it is applied to the default state, so after it the state holds no value
\* from before the reset other than what the event itself carries; the resulting
\* state is rendered and written back to the store by the persist effect.
C37_UpdateAfterReset ==
    /\ [][ (lastOp = "clearValue" /\ Len(timers') < Len(timers)) =>
             /\ nextState = initialState
             /\ nextState' = ApplyUpdater(Head(timers), initialState)
             /\ stateQueued' ]_vars
    /\ []((lastOp = "update" /\ Quiescent /\ lastPersist = "written")
           => (state = nextState /\ store[STORAGE_KEY] = JSONstringify(state)))

\* the update of the second event ran after a reset that removed the document: the
\* queue holds that update over the default, without the effect of the first event
C37_Witness ==
    /\ Len(history) = 2
    /\ timers = << >>
    /\ lastOp = "update"
    /\ store[STORAGE_KEY] = NoDocument
    /\ nextState = Reduce(history[2], initialState)
    /\ nextState # initialState
    /\ nextState # Reduce(history[2], Reduce(history[1], initialState))

slice(q, start) ==
    LET k == IF start < 0
             THEN (IF Len(q) + start > 0 THEN Len(q) + start ELSE 0)
             ELSE (IF start < Len(q) THEN start ELSE Len(q))
    IN  SubSeq(q, k + 1, Len(q))

\* messageCount: messages.length
messageCount(messages) == Len(messages.items)

\* addMessage(role, content) at time now, and the render that follows:
\* setMessages(prev => [...prev, message])
addMessage(role, content, now, random) ==
    LET message == [id |-> Str(ToString(now) \o "-" \o random), role |-> role,
                    content |-> content, timestamp |-> Num(now)]
    IN  /\ messageCount(state) < MaxMessages
        /\ state' = Arr(state.items \o << message >>)
        /\ nextState' = state'
        /\ lastOp' = "addMessage"
        /\ UNCHANGED << isHydrated, isInitialValue, nextIsHydrated, stateQueued,
                        loadPending, persistPending, lastPersist, store, timers,
                        history, seed, uncaught, interrupt >>

\* getRecentMessages(limit): messages.slice(-limit)
getRecentMessages(limit) ==
    /\ Len(history) < MaxEvents
    /\ history' = Append(history,
          [name |-> "getRecentMessages", status |-> "complete",
           args |-> [limit |-> Num(limit)],
           result |-> Arr(slice(state.items, 0 - limit))])
    /\ UNCHANGED << state, isHydrated, isInitialValue, nextState, nextIsHydrated,
                    stateQueued, loadPending, persistPending, lastPersist, store,
                    timers, seed, lastOp, uncaught, interrupt >>

\* the container starts from its default, the empty list
InitHistory == InitReducer({ Arr(<< >>) })

NextHistory ==
    \/ \E role \in { Str("user"), Str("assistant") } :
          addMessage(role, Str("hello"), 1 + messageCount(state), "k3x9q2m1z")
    \/ \E limit \in 0..MaxLimit : getRecentMessages(limit)

SpecHistory == InitHistory /\ [][NextHistory]_vars

(***************************************************************************)
(* C39.                                                                    *)
(***************************************************************************)
\* C39: in the conversation-history container, addMessage appends the new message at
\* the end and keeps all earlier messages in order, messageCount equals the number
\* of messages, and getRecentMessages(limit) returns the last
\* min(limit, messageCount) messages in order for every limit >= 0.
C39_ConversationHistory ==
    [][ /\ lastOp' = "addMessage" /\ state' # state =>
              /\ Len(state'.items) = Len(state.items) + 1
              /\ SubSeq(state'.items, 1, Len(state.items)) = state.items
              /\ messageCount(state') = messageCount(state) + 1
        /\ history' # history =>
              LET call == Last(history')
                  count == Len(state.items)
                  limit == call.args.limit.n
                  n == IF limit < count THEN limit ELSE count
              IN  /\ messageCount(state) = count
                  /\ call.result.items = SubSeq(state.items, count - n + 1, count) ]_vars

====
